---- MODULE Spec2Model ----
(***************************************************************************)
(* Model of the CSIR IoT dashboard backend: the REST ingestion route       *)
(* (routes/iot.routes.ts), the MQTT ingestion handler (mqtt.service.ts),   *)
(* the Socket.IO broadcaster (websocket.service.ts) and the read queries   *)
(* over the readings collection.                                           *)
(*                                                                         *)
(* Init is the state after startServer() has run: the database is          *)
(* connected, the MQTT client is connected and subscribed, the Socket.IO   *)
(* server exists (io # null, so broadcastToClients always emits) and the   *)
(* HTTP listener accepts requests.                                         *)
(*                                                                         *)
(* Every `await` of a handler is a step boundary: the database operation   *)
(* is one atomic step, the synchronous code up to the next await belongs   *)
(* to the step that resumes it.                                            *)
(***************************************************************************)
EXTENDS Integers, Sequences, FiniteSets, TLC

VARIABLES
    now,              \* the wall clock read by `new Date()` (milliseconds)
    sensors,          \* the sensors collection: sensorId -> document
    readings,         \* the iotreadings collection: a set of documents
    nextId,           \* insertion counter of the readings collection (_id order)
    post,             \* POST /api/iot/readings requests: request -> position and locals
    msgs,             \* bus messages and their handleMQTTMessage invocations
    mqttConnected,    \* mqttClient.connected
    connected,        \* connectedClients: the sockets currently connected
    rooms,            \* Socket.IO rooms joined by each socket
    subscribedAllAt,  \* history: nextId when the socket joined 'all-updates'
    emitted,          \* history: every io.emit, with the sockets that received it
    crashed,          \* an exception escaped a bus handler (unhandled rejection)
    response,         \* the last response of a read query
    prevResponse,     \* the response of the read query before it
    sockets,          \* Socket.IO: the sockets of the namespace that are connected
    direct,           \* the last sendToClient call and whether it emitted
    sim,              \* POST /api/iot/simulate requests: request -> position and locals
    del,              \* DELETE /api/sensors/:sensorId requests
    weather,          \* the weatherdata collection and the weather events so far
    boot,             \* startServer(): its position, and what it has started
    create,           \* POST /api/sensors requests: request -> position and locals
    front             \* the browser's WebSocketService: socket, handlers, listeners

vars == <<now, sensors, readings, nextId, post, msgs, mqttConnected, connected,
          rooms, subscribedAllAt, emitted, crashed, response, prevResponse,
          sockets, direct, sim, del, weather, boot, create, front>>

pipeVars == <<now, sensors, readings, nextId, post, msgs, mqttConnected,
              connected, rooms, subscribedAllAt, emitted, crashed>>

readVars == <<response, prevResponse>>

opsVars == <<sockets, direct, sim, del, weather, boot, create, front>>

-----------------------------------------------------------------------------
(* Bounds of the model *)

MaxTime == 1
MaxPosts == 1
MaxMsgs == 2

-----------------------------------------------------------------------------
(* Values *)

SensorIds == {"s1", "s2"}

\* socket ids: every connection the Socket.IO server may see, and the one
\* browser that takes part in the ingestion specifications
Connections == {"c1", "c2"}
Clients == {"c1"}

\* a JSON value of a reading's data map: a number (in thousandths), or a
\* value for which `typeof value === 'number'` is false
Num(n) == [t |-> "num", v |-> n]
Null == [t |-> "null", v |-> 0]
Str == [t |-> "str", v |-> 0]
Obj == [t |-> "obj", v |-> 0]

None == [t |-> "none"]
NoResponse == [kind |-> "none", status |-> 0]

Max(a, b) == IF a >= b THEN a ELSE b
Min(a, b) == IF a <= b THEN a ELSE b

-----------------------------------------------------------------------------
(* The store: sensors and readings *)

NoTime == 0 - 1

\* a Sensor document; lastReading is unset (NoTime) until a REST ingestion sets it
\* copies: how many documents of the collection carry this sensorId
SensorDoc(active) ==
    [exists |-> TRUE, isActive |-> active, lastReading |-> NoTime, copies |-> 1]
NoSensor ==
    [exists |-> FALSE, isActive |-> FALSE, lastReading |-> NoTime, copies |-> 0]

\* an object with no own keys
EmptyObj == [f \in {} |-> Null]

\* an IoTReading document. by and origin are history fields: the handler that
\* created the document (<<"post", r>> or <<"msg", m>>) and the REST request
\* it derives from (0: none)
ReadingDoc(id, sensorId, ts, data, by, origin) ==
    [id |-> id, sensorId |-> sensorId, ts |-> ts, data |-> data,
     by |-> by, origin |-> origin]

\* the schema validator of IoTReading.data
DataValid(v) == DOMAIN v # {}


-----------------------------------------------------------------------------
(* The Socket.IO broadcaster *)

SensorRoom(sid) == [room |-> "sensor", id |-> sid]
AllUpdates == [room |-> "all-updates", id |-> ""]
Weather == [room |-> "weather", id |-> ""]

\* the sensor ids the modelled browser subscribes to
WatchedIds == {"s1"}

\* an emit that reaches every socket id the server has ever seen
EmitToEveryConnection(sensorId) == Connections

\* io.emit: every connected socket of the namespace, whatever rooms it has
\* joined
EmitTargets(sensorId) == sockets

\* broadcastToClients(event, data): the emit is appended to the history with
\* the sockets it reached (to), the sockets connected at that moment (conn)
\* and the rooms each of them had joined (roomsAt). rid and by identify the
\* reading and the handler the event belongs to.
BroadcastToClients(event, sensorId, rid, by) ==
    Append(emitted,
           [event |-> event, sensorId |-> sensorId, rid |-> rid, by |-> by,
            to |-> EmitTargets(sensorId),
            conn |-> sockets,
            roomsAt |-> [c \in sockets |-> rooms[c]]])

\* a socket connects; handleConnection stores it in connectedClients
Connect(c) ==
    /\ ~crashed
    /\ c \notin sockets
    /\ sockets' = sockets \cup {c}
    /\ connected' = connected \cup {c}
    /\ rooms' = [rooms EXCEPT ![c] = {}]
    /\ subscribedAllAt' = [subscribedAllAt EXCEPT ![c] = NoTime]
    /\ UNCHANGED <<now, sensors, readings, nextId, post, msgs, mqttConnected,
                   emitted, crashed>>
    /\ UNCHANGED readVars
    /\ UNCHANGED <<direct, sim, del, weather, boot, create, front>>

\* the socket closes but its entry stays in connectedClients
DisconnectKeepsEntry(c) ==
    /\ ~crashed
    /\ c \in sockets
    /\ sockets' = sockets \ {c}
    /\ rooms' = [rooms EXCEPT ![c] = {}]
    /\ subscribedAllAt' = [subscribedAllAt EXCEPT ![c] = NoTime]
    /\ UNCHANGED <<now, sensors, readings, nextId, post, msgs, mqttConnected,
                   connected, emitted, crashed>>
    /\ UNCHANGED readVars
    /\ UNCHANGED <<direct, sim, del, weather, boot, create, front>>

\* the socket closes: Socket.IO leaves all its rooms and fires 'disconnect',
\* whose handler runs connectedClients.delete
Disconnect(c) ==
    /\ ~crashed
    /\ c \in sockets
    /\ sockets' = sockets \ {c}
    /\ connected' = connected \ {c}
    /\ rooms' = [rooms EXCEPT ![c] = {}]
    /\ subscribedAllAt' = [subscribedAllAt EXCEPT ![c] = NoTime]
    /\ UNCHANGED <<now, sensors, readings, nextId, post, msgs, mqttConnected,
                   emitted, crashed>>
    /\ UNCHANGED readVars
    /\ UNCHANGED <<direct, sim, del, weather, boot, create, front>>

\* socket.on('subscribe:sensor'): socket.join(`sensor:${sensorId}`)
SubscribeSensor(c, sid) ==
    /\ ~crashed
    /\ c \in sockets
    /\ rooms' = [rooms EXCEPT ![c] = @ \cup {SensorRoom(sid)}]
    /\ UNCHANGED <<now, sensors, readings, nextId, post, msgs, mqttConnected,
                   connected, subscribedAllAt, emitted, crashed>>
    /\ UNCHANGED readVars
    /\ UNCHANGED opsVars

\* an unsubscribe that leaves every room
UnsubscribeLeavesAll(c, sid) ==
    /\ ~crashed
    /\ c \in sockets
    /\ rooms' = [rooms EXCEPT ![c] = {}]
    /\ UNCHANGED <<now, sensors, readings, nextId, post, msgs, mqttConnected,
                   connected, subscribedAllAt, emitted, crashed>>
    /\ UNCHANGED readVars
    /\ UNCHANGED opsVars

\* socket.on('unsubscribe:sensor'): socket.leave(`sensor:${sensorId}`)
UnsubscribeSensor(c, sid) ==
    /\ ~crashed
    /\ c \in sockets
    /\ rooms' = [rooms EXCEPT ![c] = @ \ {SensorRoom(sid)}]
    /\ UNCHANGED <<now, sensors, readings, nextId, post, msgs, mqttConnected,
                   connected, subscribedAllAt, emitted, crashed>>
    /\ UNCHANGED readVars
    /\ UNCHANGED opsVars

\* socket.on('subscribe:all'): socket.join('all-updates')
SubscribeAll(c) ==
    /\ ~crashed
    /\ c \in sockets
    /\ rooms' = [rooms EXCEPT ![c] = @ \cup {AllUpdates}]
    /\ subscribedAllAt' =
         [subscribedAllAt EXCEPT ![c] = IF AllUpdates \in rooms[c] THEN @ ELSE nextId]
    /\ UNCHANGED <<now, sensors, readings, nextId, post, msgs, mqttConnected,
                   connected, emitted, crashed>>
    /\ UNCHANGED readVars
    /\ UNCHANGED opsVars

\* socket.on('subscribe:weather'): socket.join('weather')
SubscribeWeather(c) ==
    /\ ~crashed
    /\ c \in sockets
    /\ rooms' = [rooms EXCEPT ![c] = @ \cup {Weather}]
    /\ UNCHANGED <<now, sensors, readings, nextId, post, msgs, mqttConnected,
                   connected, subscribedAllAt, emitted, crashed>>
    /\ UNCHANGED readVars
    /\ UNCHANGED opsVars

\* no sendToClient call yet
NoSend == [called |-> FALSE, clientId |-> "", delivered |-> FALSE, live |-> FALSE]

\* sendToClient(clientId, event, data): emits when connectedClients has the
\* id. live is a history field: the socket of that id was connected
SendToClient(clientId) ==
    /\ ~crashed
    /\ direct' = [called |-> TRUE, clientId |-> clientId,
                  delivered |-> clientId \in connected,
                  live |-> clientId \in sockets]
    /\ UNCHANGED pipeVars
    /\ UNCHANGED readVars
    /\ UNCHANGED <<sockets, sim, del, weather, boot, create, front>>

\* getConnectedClientsCount(): connectedClients.size
GetConnectedClientsCount == Cardinality(connected)

-----------------------------------------------------------------------------
(* Errors and the global error handler *)

APIError(statusCode) == [name |-> "APIError", statusCode |-> statusCode]
ValidationError == [name |-> "ValidationError", statusCode |-> 0]
StorageError == [name |-> "MongoNetworkError", statusCode |-> 0]
DocumentNotFoundError == [name |-> "DocumentNotFoundError", statusCode |-> 0]

\* errorHandler: the status of the {success: false} response
ErrorHandler(err) ==
    IF err.name = "APIError" THEN err.statusCode
    ELSE IF err.name = "ValidationError" THEN 400
    ELSE IF err.name = "CastError" THEN 400
    ELSE IF err.name \in {"MongoError", "MongoServerError"}
         THEN IF err.code = 11000 THEN 409 ELSE 500
    ELSE 500

-----------------------------------------------------------------------------
(* The MQTT client: publishMessage *)

\* MQTT_TOPICS: the topic patterns the backend client subscribes to
MQTT_TOPICS ==
    [SENSOR_DATA |-> "csir/sensors/+/data",
     SENSOR_STATUS |-> "csir/sensors/+/status",
     WEATHER_UPDATE |-> "csir/weather/update"]

\* the patterns of the subscribe call in the 'connect' handler
SubscribedTopics ==
    {MQTT_TOPICS.SENSOR_DATA, MQTT_TOPICS.SENSOR_STATUS, MQTT_TOPICS.WEATHER_UPDATE}

\* a 'connect' handler that leaves the subscriptions as they are
KeepSubscriptions == boot.subscribed

\* mqttClient.on('connect'): mqttClient.subscribe([SENSOR_DATA, SENSOR_STATUS,
\* WEATHER_UPDATE]), on the first connect and on every reconnect
OnConnectSubscriptions == SubscribedTopics

\* JSON texts a device publishes on csir/sensors/{id}/data; json = FALSE is a
\* payload JSON.parse rejects
BadJson == [json |-> FALSE, obj |-> EmptyObj]
JsonObj(o) == [json |-> TRUE, obj |-> o]
WellFormed == JsonObj([temperature |-> Num(21500)])
DevicePayloads == {BadJson, WellFormed, JsonObj(EmptyObj)}

\* offline is a history field: the message was published while the backend
\* client had no subscription at the broker
NoMsg ==
    [pc |-> "none", sensorId |-> "", payload |-> BadJson, ts |-> NoTime,
     rid |-> 0, origin |-> 0, outcome |-> "", offline |-> FALSE]

\* the messages devices publish, then one slot per REST request for the copy
\* the route publishes
MsgIds == 1..(MaxMsgs + MaxPosts)
LoopMsg(r) == MaxMsgs + r

\* publishMessage(topic, message): published only while the client is
\* connected, dropped with a warning otherwise
PublishMessage(r, sensorId, message) ==
    IF mqttConnected
    THEN [msgs EXCEPT ![LoopMsg(r)] =
            [NoMsg EXCEPT !.pc = "inflight", !.sensorId = sensorId,
                          !.payload = JsonObj(message), !.origin = r]]
    ELSE msgs

-----------------------------------------------------------------------------
(* POST /api/iot/readings *)

Requests == 1..MaxPosts

\* request bodies: no data at all, data: {} and data: {temperature: 21.5}
RestBodies == {"missing", "empty", "temp"}
BodyData(b) == IF b = "temp" THEN [temperature |-> Num(21500)] ELSE EmptyObj

\* validateIoTReading: body('data').notEmpty().isObject()
ValidateIoTReading(b) == b # "missing"

\* published is a history field: publishMessage found the client connected
NoPost ==
    [pc |-> "idle", sensorId |-> "", body |-> "missing", snap |-> NoSensor,
     ts |-> NoTime, rid |-> 0, status |-> 0, error |-> "", published |-> FALSE]

Respond(r, status, error) ==
    [post EXCEPT ![r].pc = "done", ![r].status = status, ![r].error = error]

\* the checks without the isActive test
SensorCheckIgnoresActive(sensor) ==
    IF ~sensor.exists THEN APIError(404) ELSE None

\* the checks without the test for a missing sensor
SensorCheckActiveOnly(sensor) ==
    IF sensor.exists /\ ~sensor.isActive THEN APIError(400) ELSE None

\* the checks of the route on the sensor document findOne returned:
\* the error thrown, or None
SensorCheck(sensor) ==
    IF ~sensor.exists THEN APIError(404)
    ELSE IF ~sensor.isActive THEN APIError(400)
    ELSE None

\* the request arrives, passes validateIoTReading, and Sensor.findOne runs
PostFindSensor(r, sid, b) ==
    /\ ~crashed
    /\ post[r].pc = "idle"
    /\ \A q \in Requests : q < r => post[q].pc # "idle"
    /\ IF ValidateIoTReading(b)
       THEN post' = [post EXCEPT ![r] = [NoPost EXCEPT !.pc = "found",
                                           !.sensorId = sid, !.body = b,
                                           !.snap = sensors[sid]]]
       ELSE post' = [post EXCEPT ![r] = [NoPost EXCEPT !.pc = "done",
                                           !.sensorId = sid, !.body = b,
                                           !.status = 400,
                                           !.error = "Validation failed"]]
    /\ UNCHANGED <<now, sensors, readings, nextId, msgs, mqttConnected,
                   connected, rooms, subscribedAllAt, emitted, crashed>>
    /\ UNCHANGED readVars
    /\ UNCHANGED opsVars

\* findOne has resolved: the sensor checks, then `new IoTReading({timestamp:
\* new Date()})` and the call of reading.save()
PostCheckSensor(r) ==
    /\ ~crashed
    /\ post[r].pc = "found"
    /\ LET err == SensorCheck(post[r].snap) IN
       IF err # None
       THEN post' = Respond(r, ErrorHandler(err),
                            IF ~post[r].snap.exists THEN "Sensor not found"
                            ELSE "Sensor is inactive")
       ELSE post' = [post EXCEPT ![r].pc = "saving", ![r].ts = now]
    /\ UNCHANGED <<now, sensors, readings, nextId, msgs, mqttConnected,
                   connected, rooms, subscribedAllAt, emitted, crashed>>
    /\ UNCHANGED readVars
    /\ UNCHANGED opsVars

\* reading.save(): schema validation, then the insert, which the store may fail
PostSaveReading(r) ==
    /\ ~crashed
    /\ post[r].pc = "saving"
    /\ IF ~DataValid(BodyData(post[r].body))
       THEN /\ post' = Respond(r, ErrorHandler(ValidationError),
                               "Data must be a non-empty object")
            /\ UNCHANGED <<readings, nextId>>
       ELSE \/ /\ readings' = readings \cup
                     {ReadingDoc(nextId, post[r].sensorId, post[r].ts,
                                 BodyData(post[r].body), <<"post", r>>, r)}
               /\ nextId' = nextId + 1
               /\ post' = [post EXCEPT ![r].pc = "savedReading", ![r].rid = nextId]
            \/ /\ post' = Respond(r, ErrorHandler(StorageError),
                                  "Internal server error")
               /\ UNCHANGED <<readings, nextId>>
    /\ UNCHANGED <<now, sensors, msgs, mqttConnected, connected, rooms,
                   subscribedAllAt, emitted, crashed>>
    /\ UNCHANGED readVars
    /\ UNCHANGED opsVars

\* sensor.lastReading = reading.timestamp; sensor.save(): the update of the
\* modified path, which fails when the store fails or the document is gone
PostSaveSensor(r) ==
    /\ ~crashed
    /\ post[r].pc = "savedReading"
    /\ \/ /\ sensors[post[r].sensorId].exists
          /\ sensors' = [sensors EXCEPT ![post[r].sensorId].lastReading = post[r].ts]
          /\ post' = [post EXCEPT ![r].pc = "savedSensor"]
       \/ /\ post' = Respond(r, ErrorHandler(IF sensors[post[r].sensorId].exists
                                             THEN StorageError
                                             ELSE DocumentNotFoundError),
                             "Internal server error")
          /\ UNCHANGED sensors
    /\ UNCHANGED <<now, readings, nextId, msgs, mqttConnected, connected, rooms,
                   subscribedAllAt, emitted, crashed>>
    /\ UNCHANGED readVars
    /\ UNCHANGED opsVars

\* the message the route publishes to csir/sensors/{sensorId}/data:
\* {sensorId, timestamp, data: reading.data}
RepublishedMessage == [sensorId |-> Str, timestamp |-> Str, data |-> Obj]

\* both saves have resolved: broadcastToClients, publishMessage, 201
PostFinish(r) ==
    /\ ~crashed
    /\ post[r].pc = "savedSensor"
    /\ emitted' = BroadcastToClients("iot:reading", post[r].sensorId, post[r].rid,
                                     <<"post", r>>)
    /\ msgs' = PublishMessage(r, post[r].sensorId, RepublishedMessage)
    /\ post' = [Respond(r, 201, "") EXCEPT ![r].published = mqttConnected]
    /\ UNCHANGED <<now, sensors, readings, nextId, mqttConnected, connected,
                   rooms, subscribedAllAt, crashed>>
    /\ UNCHANGED readVars
    /\ UNCHANGED opsVars

-----------------------------------------------------------------------------
(* POST /api/iot/simulate *)

MaxSims == 1

SimRequests == 1..MaxSims

\* the sensorId of the request body; "" : none given
SimTargets == SensorIds \cup {""}

\* simulatedData: the five measurement fields, all numbers
SimulatedData ==
    [temperature |-> Num(27500), humidity |-> Num(60000), pressure |-> Num(1015000),
     windspeed |-> Num(10000), winddirection |-> Num(180000)]

NoSim ==
    [pc |-> "idle", sensorId |-> "", snap |-> NoSensor, ts |-> NoTime,
     rid |-> 0, status |-> 0]

\* the documents Sensor.findOne may return: the sensor of the given id, or,
\* without an id, any active sensor; NoSensor for null
SimFindOne(target) ==
    IF target # ""
    THEN {[sensorId |-> target, doc |-> sensors[target]]}
    ELSE LET active == {sid \in SensorIds : sensors[sid].exists /\ sensors[sid].isActive} IN
         IF active = {} THEN {[sensorId |-> "", doc |-> NoSensor]}
         ELSE {[sensorId |-> sid, doc |-> sensors[sid]] : sid \in active}

\* the request arrives and Sensor.findOne runs
SimFindSensor(q, target) ==
    /\ ~crashed
    /\ sim[q].pc = "idle"
    /\ \A p \in SimRequests : p < q => sim[p].pc # "idle"
    /\ \E found \in SimFindOne(target) :
         sim' = [sim EXCEPT ![q] = [NoSim EXCEPT !.pc = "found",
                                                !.sensorId = found.sensorId,
                                                !.snap = found.doc]]
    /\ UNCHANGED pipeVars
    /\ UNCHANGED readVars
    /\ UNCHANGED <<sockets, direct, del, weather, boot, create, front>>

\* findOne has resolved: 404 for null (an inactive sensor named by its id
\* passes), else `new IoTReading({timestamp: new Date()})` and reading.save()
SimCheckSensor(q) ==
    /\ ~crashed
    /\ sim[q].pc = "found"
    /\ IF ~sim[q].snap.exists
       THEN sim' = [sim EXCEPT ![q].pc = "done", ![q].status = ErrorHandler(APIError(404))]
       ELSE sim' = [sim EXCEPT ![q].pc = "saving", ![q].ts = now]
    /\ UNCHANGED pipeVars
    /\ UNCHANGED readVars
    /\ UNCHANGED <<sockets, direct, del, weather, boot, create, front>>

\* reading.save(): the insert, which the store may fail
SimSaveReading(q) ==
    /\ ~crashed
    /\ sim[q].pc = "saving"
    /\ \/ /\ readings' = readings \cup
                {ReadingDoc(nextId, sim[q].sensorId, sim[q].ts, SimulatedData,
                            <<"sim", q>>, 0)}
          /\ nextId' = nextId + 1
          /\ sim' = [sim EXCEPT ![q].pc = "savedReading", ![q].rid = nextId]
       \/ /\ sim' = [sim EXCEPT ![q].pc = "done", ![q].status = ErrorHandler(StorageError)]
          /\ UNCHANGED <<readings, nextId>>
    /\ UNCHANGED <<now, sensors, post, msgs, mqttConnected, connected, rooms,
                   subscribedAllAt, emitted, crashed>>
    /\ UNCHANGED readVars
    /\ UNCHANGED <<sockets, direct, del, weather, boot, create, front>>

\* sensor.lastReading = reading.timestamp; sensor.save()
SimSaveSensor(q) ==
    /\ ~crashed
    /\ sim[q].pc = "savedReading"
    /\ \/ /\ sensors[sim[q].sensorId].exists
          /\ sensors' = [sensors EXCEPT ![sim[q].sensorId].lastReading = sim[q].ts]
          /\ sim' = [sim EXCEPT ![q].pc = "savedSensor"]
       \/ /\ sim' = [sim EXCEPT ![q].pc = "done",
                                 ![q].status = ErrorHandler(IF sensors[sim[q].sensorId].exists
                                                            THEN StorageError
                                                            ELSE DocumentNotFoundError)]
          /\ UNCHANGED sensors
    /\ UNCHANGED <<now, readings, nextId, post, msgs, mqttConnected, connected, rooms,
                   subscribedAllAt, emitted, crashed>>
    /\ UNCHANGED readVars
    /\ UNCHANGED <<sockets, direct, del, weather, boot, create, front>>

\* both saves have resolved: broadcastToClients, 200 (nothing is published)
SimFinish(q) ==
    /\ ~crashed
    /\ sim[q].pc = "savedSensor"
    /\ emitted' = BroadcastToClients("iot:reading", sim[q].sensorId, sim[q].rid,
                                     <<"sim", q>>)
    /\ sim' = [sim EXCEPT ![q].pc = "done", ![q].status = 200]
    /\ UNCHANGED <<now, sensors, readings, nextId, post, msgs, mqttConnected,
                   connected, rooms, subscribedAllAt, crashed>>
    /\ UNCHANGED readVars
    /\ UNCHANGED <<sockets, direct, del, weather, boot, create, front>>

-----------------------------------------------------------------------------
(* MQTT ingestion: handleMQTTMessage and handleSensorData *)

KnownFields == {"temperature", "humidity", "pressure", "windspeed", "winddirection"}

\* data: {temperature: data.temperature, ..., winddirection: data.winddirection,
\* ...data}: the five known keys are always present, undefined (stored as
\* null) when the payload lacks them
SensorDataMap(payload) ==
    [f \in KnownFields \cup DOMAIN payload |->
        IF f \in DOMAIN payload THEN payload[f] ELSE Null]

\* a handler without the catch block: the error leaves the handler
CatchRethrows(err) == "crash"

\* the catch block of handleMQTTMessage / handleSensorData: the error is
\* logged and the handler returns; "crash" would be an unhandled rejection
CatchIngestionError(err) == "logged"

\* the synchronous start of handleMQTTMessage(topic, message) on a
\* csir/sensors/{sid}/data topic, up to the await of reading.save():
\* JSON.parse, the topic match, new IoTReading({timestamp: new Date()})
StartHandler(m, sid, payload, origin) ==
    IF ~payload.json
    THEN /\ msgs' = [msgs EXCEPT ![m] =
                       [NoMsg EXCEPT !.pc = "done", !.sensorId = sid,
                                     !.payload = payload, !.origin = origin,
                                     !.outcome = "parseError"]]
         /\ crashed' = (CatchIngestionError("SyntaxError") = "crash")
    ELSE /\ msgs' = [msgs EXCEPT ![m] =
                       [NoMsg EXCEPT !.pc = "saving", !.sensorId = sid,
                                     !.payload = payload, !.origin = origin,
                                     !.ts = now]]
         /\ UNCHANGED crashed

\* a device publishes on csir/sensors/{sid}/data and the broker delivers the
\* message to the subscribed backend client
DeviceMessage(m, sid, payload) ==
    /\ ~crashed
    /\ mqttConnected
    /\ MQTT_TOPICS.SENSOR_DATA \in boot.subscribed
    /\ m <= MaxMsgs
    /\ msgs[m].pc = "none"
    /\ \A q \in 1..MaxMsgs : q < m => msgs[q].pc # "none"
    /\ StartHandler(m, sid, payload, 0)
    /\ UNCHANGED <<now, sensors, readings, nextId, post, mqttConnected,
                   connected, rooms, subscribedAllAt, emitted>>
    /\ UNCHANGED readVars
    /\ UNCHANGED opsVars

\* the broker delivers the copy a REST request published back to the backend
\* client, which is subscribed to csir/sensors/+/data
LoopbackDeliver(m) ==
    /\ ~crashed
    /\ mqttConnected
    /\ MQTT_TOPICS.SENSOR_DATA \in boot.subscribed
    /\ msgs[m].pc = "inflight"
    /\ StartHandler(m, msgs[m].sensorId, msgs[m].payload, msgs[m].origin)
    /\ UNCHANGED <<now, sensors, readings, nextId, post, mqttConnected,
                   connected, rooms, subscribedAllAt, emitted>>
    /\ UNCHANGED readVars
    /\ UNCHANGED opsVars

\* clean session, no subscription at the broker: the broker drops the message
LoopbackDrop(m) ==
    /\ ~crashed
    /\ MQTT_TOPICS.SENSOR_DATA \notin boot.subscribed
    /\ msgs[m].pc = "inflight"
    /\ msgs' = [msgs EXCEPT ![m].pc = "lost"]
    /\ UNCHANGED <<now, sensors, readings, nextId, post, mqttConnected,
                   connected, rooms, subscribedAllAt, emitted, crashed>>
    /\ UNCHANGED readVars
    /\ UNCHANGED opsVars

\* a handler that carries on to the broadcast when reading.save() rejects
BroadcastAfterFailedSave == "saved"

\* a rejected reading.save() throws out of the try block: the broadcast
\* statement after it is skipped and the handler is done
AfterFailedSave == "done"

\* await reading.save() in handleSensorData: the insert, or its failure, which
\* the catch block logs
SensorDataSave(m) ==
    /\ ~crashed
    /\ msgs[m].pc = "saving"
    /\ LET data == SensorDataMap(msgs[m].payload.obj) IN
       \/ /\ DataValid(data)
          /\ readings' = readings \cup
                {ReadingDoc(nextId, msgs[m].sensorId, msgs[m].ts, data,
                            <<"msg", m>>, msgs[m].origin)}
          /\ nextId' = nextId + 1
          /\ msgs' = [msgs EXCEPT ![m].pc = "saved", ![m].rid = nextId]
          /\ UNCHANGED crashed
       \/ /\ msgs' = [msgs EXCEPT ![m].pc = AfterFailedSave,
                                   ![m].outcome = "saveFailed"]
          /\ crashed' = (CatchIngestionError("StorageError") = "crash")
          /\ UNCHANGED <<readings, nextId>>
    /\ UNCHANGED <<now, sensors, post, mqttConnected, connected, rooms,
                   subscribedAllAt, emitted>>
    /\ UNCHANGED readVars
    /\ UNCHANGED opsVars

\* save has resolved: broadcastToClients('iot:reading', ...)
SensorDataBroadcast(m) ==
    /\ ~crashed
    /\ msgs[m].pc = "saved"
    /\ emitted' = BroadcastToClients("iot:reading", msgs[m].sensorId, msgs[m].rid,
                                     <<"msg", m>>)
    /\ msgs' = [msgs EXCEPT ![m].pc = "done", ![m].outcome = "ok"]
    /\ UNCHANGED <<now, sensors, readings, nextId, post, mqttConnected,
                   connected, rooms, subscribedAllAt, crashed>>
    /\ UNCHANGED readVars
    /\ UNCHANGED opsVars

\* JSON texts a device publishes on csir/sensors/{id}/status
StatusPayloads ==
    {BadJson, JsonObj([state |-> Str]), JsonObj([battery |-> Num(90000)])}

\* a status handler that also stamps the sensor document
StatusTouchesSensor(sid) == [sensors EXCEPT ![sid].lastReading = now]

\* handleSensorStatus writes nothing to the sensors collection
StatusSensors(sid) == sensors

\* a device publishes on csir/sensors/{sid}/status: handleMQTTMessage parses
\* the payload (a SyntaxError is caught and logged), the status branch calls
\* handleSensorStatus, which broadcasts sensor:status {sensorId, status}
StatusMessage(m, sid, payload) ==
    /\ ~crashed
    /\ mqttConnected
    /\ MQTT_TOPICS.SENSOR_STATUS \in boot.subscribed
    /\ m <= MaxMsgs
    /\ msgs[m].pc = "none"
    /\ \A q \in 1..MaxMsgs : q < m => msgs[q].pc # "none"
    /\ IF ~payload.json
       THEN /\ msgs' = [msgs EXCEPT ![m] =
                          [NoMsg EXCEPT !.pc = "done", !.sensorId = sid,
                                        !.payload = payload,
                                        !.outcome = "statusParseError"]]
            /\ crashed' = (CatchIngestionError("SyntaxError") = "crash")
            /\ UNCHANGED <<emitted, sensors>>
       ELSE /\ msgs' = [msgs EXCEPT ![m] =
                          [NoMsg EXCEPT !.pc = "done", !.sensorId = sid,
                                        !.payload = payload,
                                        !.outcome = "status"]]
            /\ emitted' =
                 LET e == BroadcastToClients("sensor:status", sid, 0, <<"msg", m>>)
                 IN [e EXCEPT ![Len(e)] = @ @@ [status |-> payload.obj]]
            /\ sensors' = StatusSensors(sid)
            /\ UNCHANGED crashed
    /\ UNCHANGED <<now, readings, nextId, post, mqttConnected, connected,
                   rooms, subscribedAllAt>>
    /\ UNCHANGED readVars
    /\ UNCHANGED opsVars

\* a device publishes on csir/sensors/{sid}/data while the backend client
\* has no subscription at the broker: with clean: true the broker keeps
\* nothing for it
DevicePublishOffline(m, sid, payload) ==
    /\ ~crashed
    /\ MQTT_TOPICS.SENSOR_DATA \notin boot.subscribed
    /\ m <= MaxMsgs
    /\ msgs[m].pc = "none"
    /\ \A q \in 1..MaxMsgs : q < m => msgs[q].pc # "none"
    /\ msgs' = [msgs EXCEPT ![m] =
                   [NoMsg EXCEPT !.pc = "lost", !.sensorId = sid,
                                 !.payload = payload, !.offline = TRUE]]
    /\ UNCHANGED <<now, sensors, readings, nextId, post, mqttConnected,
                   connected, rooms, subscribedAllAt, emitted, crashed>>
    /\ UNCHANGED readVars
    /\ UNCHANGED opsVars

\* the connection to the broker is lost ('close'); the session is clean, so
\* the broker forgets the subscriptions
MqttClose ==
    /\ ~crashed
    /\ mqttConnected
    /\ mqttConnected' = FALSE
    /\ boot' = [boot EXCEPT !.subscribed = {}]
    /\ UNCHANGED <<now, sensors, readings, nextId, post, msgs, connected, rooms,
                   subscribedAllAt, emitted, crashed>>
    /\ UNCHANGED readVars
    /\ UNCHANGED <<sockets, direct, sim, del, weather, create, front>>

\* the client reconnects ('connect'): it subscribes to the topics again
MqttConnect ==
    /\ ~crashed
    /\ ~mqttConnected
    /\ mqttConnected' = TRUE
    /\ boot' = [boot EXCEPT !.subscribed = OnConnectSubscriptions]
    /\ UNCHANGED <<now, sensors, readings, nextId, post, msgs, connected, rooms,
                   subscribedAllAt, emitted, crashed>>
    /\ UNCHANGED readVars
    /\ UNCHANGED <<sockets, direct, sim, del, weather, create, front>>

-----------------------------------------------------------------------------
(* The environment: the clock and the administration of sensors *)

Tick ==
    /\ now < MaxTime
    /\ now' = now + 1
    /\ UNCHANGED <<sensors, readings, nextId, post, msgs, mqttConnected,
                   connected, rooms, subscribedAllAt, emitted, crashed>>
    /\ UNCHANGED readVars
    /\ UNCHANGED opsVars

\* PUT /api/sensors/:sensorId with {isActive}: only the modified path is saved
PutSensorActive(sid, active) ==
    /\ ~crashed
    /\ sensors[sid].exists
    /\ sensors[sid].isActive # active
    /\ sensors' = [sensors EXCEPT ![sid].isActive = active]
    /\ UNCHANGED <<now, readings, nextId, post, msgs, mqttConnected, connected,
                   rooms, subscribedAllAt, emitted, crashed>>
    /\ UNCHANGED readVars
    /\ UNCHANGED opsVars

-----------------------------------------------------------------------------
(* The ingestion pipeline *)

-----------------------------------------------------------------------------
(* Weather: the bus topic csir/weather/update, GET /api/weather/current and
   the weather service *)

MaxWeather == 2
MaxSeeded == 1

\* the weather_data documents the database seed script inserts
SeededWeather ==
    {[id |-> k, source |-> "simulation", call |-> 0] : k \in 1..MaxSeeded}

\* samples: the weather_data collection. The rest is history and control:
\* weather events handled from the bus, upstream polls whose operation
\* returned successfully, the position of fetchAndBroadcastWeather, the
\* status of the last GET /current, and one entry per call of
\* fetchAndBroadcastWeather with what became of it
NoWeather == [samples |-> SeededWeather, events |-> 0, polled |-> 0,
              job |-> "idle", status |-> 0, results |-> <<>>]

\* what makes axios.get reject: the 10 s timeout, or a network error
UpstreamFailures == {"timeout of 10000ms exceeded", "Network Error"}

NoError == [name |-> "", statusCode |-> 0, message |-> <<>>]

\* the Error the catch block of fetchWeatherFromAPI throws:
\* `Failed to fetch weather data: ${axiosError.message}`
UpstreamError(cause) ==
    [name |-> "Error", statusCode |-> 0,
     message |-> <<"Failed to fetch weather data: ", cause>>]

\* the error a failed weatherData.save() rethrows
WeatherStoreError == [name |-> "MongoNetworkError", statusCode |-> 0, message |-> <<>>]

\* handleMQTTMessage on csir/weather/update -> handleWeatherUpdate: the
\* payload is broadcast as weather:update; nothing is written to the store
WeatherUpdate ==
    /\ ~crashed
    /\ mqttConnected
    /\ MQTT_TOPICS.WEATHER_UPDATE \in boot.subscribed
    /\ weather.events < MaxWeather
    /\ emitted' = BroadcastToClients("weather:update", "", 0,
                                     <<"weather", weather.events + 1>>)
    /\ weather' = [weather EXCEPT !.events = @ + 1]
    /\ UNCHANGED <<now, sensors, readings, nextId, post, msgs, mqttConnected,
                   connected, rooms, subscribedAllAt, crashed>>
    /\ UNCHANGED readVars
    /\ UNCHANGED <<sockets, direct, sim, del, boot, create, front>>

\* GET /api/weather/current: fetchWeatherFromAPI, then res.json of the
\* result; an upstream failure goes to the error handler
GetCurrentWeather(ok) ==
    /\ ~crashed
    /\ weather.polled < MaxWeather
    /\ weather' = IF ok
                  THEN [weather EXCEPT !.polled = @ + 1, !.status = 200]
                  ELSE [weather EXCEPT !.status =
                          ErrorHandler(UpstreamError("Network Error"))]
    /\ UNCHANGED pipeVars
    /\ UNCHANGED readVars
    /\ UNCHANGED <<sockets, direct, sim, del, boot, create, front>>

\* a fetchAndBroadcastWeather that carries on after a failed fetch
FetchFailureIgnored(ok) == "fetched"

\* where fetchAndBroadcastWeather stands after await fetchWeatherFromAPI: the
\* rejection leaves the function
AfterFetch(ok) == IF ok THEN "fetched" ELSE "idle"

\* fetchAndBroadcastWeather, an exported operation of the weather service
\* that no route or timer of the backend calls: await fetchWeatherFromAPI,
\* which makes one axios.get and returns the processed data or throws
FetchWeather(ok, cause) ==
    /\ ~crashed
    /\ weather.job = "idle"
    /\ Len(weather.results) < MaxWeather
    /\ weather' = [weather EXCEPT
                     !.job = AfterFetch(ok),
                     !.results = Append(@,
                        [attempts |-> 1,
                         failed |-> IF ok THEN "" ELSE "fetch",
                         error |-> IF ok THEN NoError ELSE UpstreamError(cause)])]
    /\ UNCHANGED pipeVars
    /\ UNCHANGED readVars
    /\ UNCHANGED <<sockets, direct, sim, del, boot, create, front>>

\* storeWeatherData: new WeatherData({..., source: 'api'}).save(), or the
\* save throws and fetchAndBroadcastWeather rejects
StoreWeatherData ==
    /\ ~crashed
    /\ weather.job = "fetched"
    /\ \/ weather' = [weather EXCEPT
                        !.samples = @ \cup {[id |-> Cardinality(@) + 1,
                                             source |-> "api",
                                             call |-> Len(weather.results)]},
                        !.job = "stored"]
       \/ weather' = [weather EXCEPT
                        !.job = "idle",
                        !.results[Len(weather.results)].failed = "store",
                        !.results[Len(weather.results)].error = WeatherStoreError]
    /\ UNCHANGED pipeVars
    /\ UNCHANGED readVars
    /\ UNCHANGED <<sockets, direct, sim, del, boot, create, front>>

\* the end of fetchAndBroadcastWeather: broadcastToClients('weather:update')
BroadcastWeather ==
    /\ ~crashed
    /\ weather.job = "stored"
    /\ emitted' = BroadcastToClients("weather:update", "", 0,
                                     <<"poll", Len(weather.results)>>)
    /\ weather' = [weather EXCEPT !.job = "idle", !.polled = @ + 1]
    /\ UNCHANGED <<now, sensors, readings, nextId, post, msgs, mqttConnected,
                   connected, rooms, subscribedAllAt, crashed>>
    /\ UNCHANGED readVars
    /\ UNCHANGED <<sockets, direct, sim, del, boot, create, front>>

\* weather events and polls with a browser connecting and leaving
NextWeather ==
    \/ WeatherUpdate
    \/ \E ok \in BOOLEAN : GetCurrentWeather(ok)
    \/ \E ok \in BOOLEAN, cause \in UpstreamFailures : FetchWeather(ok, cause)
    \/ StoreWeatherData
    \/ BroadcastWeather
    \/ \E c \in Clients : Connect(c)
    \/ \E c \in Clients : Disconnect(c)
    \/ \E c \in Clients : SubscribeWeather(c)

-----------------------------------------------------------------------------
(* Weather codes: WEATHER_CODES, getWeatherDescription and the description
   fetchWeatherFromAPI adds *)

MaxCode == 100
MinCode == 0 - 2

\* the integer weather codes a request or an upstream response may carry
Codes == MinCode..MaxCode

\* WEATHER_CODES: the WMO code table, an object with 28 numeric keys
WEATHER_CODES ==
    (0 :> "Clear sky") @@ (1 :> "Mainly clear") @@ (2 :> "Partly cloudy") @@
    (3 :> "Overcast") @@ (45 :> "Fog") @@ (48 :> "Depositing rime fog") @@
    (51 :> "Light drizzle") @@ (53 :> "Moderate drizzle") @@
    (55 :> "Dense drizzle") @@ (56 :> "Light freezing drizzle") @@
    (57 :> "Dense freezing drizzle") @@ (61 :> "Slight rain") @@
    (63 :> "Moderate rain") @@ (65 :> "Heavy rain") @@
    (66 :> "Light freezing rain") @@ (67 :> "Heavy freezing rain") @@
    (71 :> "Slight snowfall") @@ (73 :> "Moderate snowfall") @@
    (75 :> "Heavy snowfall") @@ (77 :> "Snow grains") @@
    (80 :> "Slight rain showers") @@ (81 :> "Moderate rain showers") @@
    (82 :> "Violent rain showers") @@ (85 :> "Slight snow showers") @@
    (86 :> "Heavy snow showers") @@ (95 :> "Thunderstorm") @@
    (96 :> "Thunderstorm with slight hail") @@
    (99 :> "Thunderstorm with heavy hail")

\* the value of obj[key]: undefined when the object has no such key
Undefined == "undefined"
Member(obj, key) == IF key \in DOMAIN obj THEN obj[key] ELSE Undefined

\* a lookup with no fallback
OrNothing(v, fallback) == v

\* v || fallback for a string or undefined v: the empty string and undefined
\* are falsy
Or(v, fallback) == IF v = Undefined \/ v = "" THEN fallback ELSE v

\* getWeatherDescription(weathercode): WEATHER_CODES[weathercode] || 'Unknown'
GetWeatherDescription(weathercode) ==
    Or(Member(WEATHER_CODES, weathercode), "Unknown")

\* fetchWeatherFromAPI, the processed data of a successful response:
\* weather_description: WEATHER_CODES[currentWeather.weathercode] || 'Unknown'
ProcessedWeatherData(weathercode) ==
    [weathercode |-> weathercode,
     weather_description |-> Or(Member(WEATHER_CODES, weathercode), "Unknown")]

\* GET /api/weather/code/:code: {code, description: getWeatherDescription(code)}
GetWeatherCode(code) ==
    /\ response' = [kind |-> "code", status |-> 200,
                    data |-> [code |-> code,
                              description |-> GetWeatherDescription(code)]]
    /\ prevResponse' = response
    /\ UNCHANGED pipeVars
    /\ UNCHANGED opsVars

\* GET /api/weather/current with an upstream response that carries weathercode
GetCurrentWeatherData(weathercode) ==
    /\ response' = [kind |-> "current", status |-> 200,
                    data |-> ProcessedWeatherData(weathercode)]
    /\ prevResponse' = response
    /\ UNCHANGED pipeVars
    /\ UNCHANGED opsVars

NextCodes ==
    \/ \E code \in Codes : GetWeatherCode(code)
    \/ \E weathercode \in Codes : GetCurrentWeatherData(weathercode)

-----------------------------------------------------------------------------
(* DELETE /api/sensors/:sensorId *)

\* started is a history field: the handlers that had started when the
\* request completed
NoDelete == [pc |-> "idle", sensorId |-> "", status |-> 0, started |-> {}]

\* the ingestion handlers that have started: bus handlers, REST requests
StartedHandlers ==
    {<<"msg", m>> : m \in {k \in MsgIds : msgs[k].pc \notin {"none", "inflight", "lost"}}}
        \cup {<<"post", r>> : r \in {k \in Requests : post[k].pc # "idle"}}
        \cup {<<"sim", q>> : q \in {k \in SimRequests : sim[k].pc # "idle"}}

\* Sensor.findOneAndDelete({sensorId}): the sensor is removed, or 404 for null
DeleteSensor(sid) ==
    /\ ~crashed
    /\ del.pc = "idle"
    /\ IF sensors[sid].exists
       THEN /\ sensors' = [sensors EXCEPT ![sid] = NoSensor]
            /\ del' = [NoDelete EXCEPT !.pc = "deleted", !.sensorId = sid]
       ELSE /\ del' = [NoDelete EXCEPT !.pc = "done", !.sensorId = sid,
                                       !.status = ErrorHandler(APIError(404)),
                                       !.started = StartedHandlers]
            /\ UNCHANGED sensors
    /\ UNCHANGED <<now, readings, nextId, post, msgs, mqttConnected, connected,
                   rooms, subscribedAllAt, emitted, crashed>>
    /\ UNCHANGED readVars
    /\ UNCHANGED <<sockets, direct, sim, weather, boot, create, front>>

\* IoTReading.deleteMany({sensorId}), then 200; or the store fails it
DeleteReadings ==
    /\ ~crashed
    /\ del.pc = "deleted"
    /\ \/ /\ readings' = {x \in readings : x.sensorId # del.sensorId}
          /\ del' = [del EXCEPT !.pc = "done", !.status = 200,
                                !.started = StartedHandlers]
       \/ /\ del' = [del EXCEPT !.pc = "done", !.status = ErrorHandler(StorageError),
                                !.started = StartedHandlers]
          /\ UNCHANGED readings
    /\ UNCHANGED <<now, sensors, nextId, post, msgs, mqttConnected, connected,
                   rooms, subscribedAllAt, emitted, crashed>>
    /\ UNCHANGED readVars
    /\ UNCHANGED <<sockets, direct, sim, weather, boot, create, front>>

-----------------------------------------------------------------------------
(* POST /api/sensors: create a sensor (the request has passed authenticateToken,
   requireRole('admin') and validateCreateSensor) *)

MaxCreates == 2

CreateRequests == 1..MaxCreates

NoCreate == [pc |-> "idle", sensorId |-> "", existing |-> FALSE, status |-> 0]

\* the E11000 error of an insert the unique index on sensorId refuses
DuplicateKeyError == [name |-> "MongoServerError", statusCode |-> 0, code |-> 11000]

\* a collection without the unique index takes every insert
NoUniqueIndex(sid) == TRUE

\* sensorId: {unique: true}: the index takes the insert when no document
\* carries the id
UniqueIndexAccepts(sid) == sensors[sid].copies = 0

\* const existingSensor = await Sensor.findOne({sensorId})
CreateFindSensor(q, sid) ==
    /\ ~crashed
    /\ create[q].pc = "idle"
    /\ \A k \in CreateRequests : k < q => create[k].pc # "idle"
    /\ create' = [create EXCEPT ![q] =
                     [NoCreate EXCEPT !.pc = "found", !.sensorId = sid,
                                      !.existing = sensors[sid].exists]]
    /\ UNCHANGED pipeVars
    /\ UNCHANGED readVars
    /\ UNCHANGED <<sockets, direct, sim, del, weather, boot, front>>

\* if (existingSensor) throw new APIError(409); otherwise new Sensor({...,
\* isActive: true}) and await sensor.save(): the insert, the duplicate key
\* error of the unique index, or a storage failure; then 201 or the error
\* handler's response
CreateSave(q) ==
    /\ ~crashed
    /\ create[q].pc = "found"
    /\ LET sid == create[q].sensorId IN
       IF create[q].existing
       THEN /\ create' = [create EXCEPT ![q].pc = "done",
                                        ![q].status = ErrorHandler(APIError(409))]
            /\ UNCHANGED sensors
       ELSE \/ /\ UniqueIndexAccepts(sid)
               /\ sensors' = [sensors EXCEPT ![sid] =
                                [SensorDoc(TRUE) EXCEPT
                                    !.copies = sensors[sid].copies + 1]]
               /\ create' = [create EXCEPT ![q].pc = "done", ![q].status = 201]
            \/ /\ ~UniqueIndexAccepts(sid)
               /\ create' = [create EXCEPT ![q].pc = "done",
                                           ![q].status = ErrorHandler(DuplicateKeyError)]
               /\ UNCHANGED sensors
            \/ /\ create' = [create EXCEPT ![q].pc = "done",
                                           ![q].status = ErrorHandler(StorageError)]
               /\ UNCHANGED sensors
    /\ UNCHANGED <<now, readings, nextId, post, msgs, mqttConnected, connected,
                   rooms, subscribedAllAt, emitted, crashed>>
    /\ UNCHANGED readVars
    /\ UNCHANGED <<sockets, direct, sim, del, weather, boot, front>>

\* concurrent create requests while an administrator toggles sensors and the
\* clock advances
NextCreate ==
    \/ \E q \in CreateRequests, sid \in SensorIds : CreateFindSensor(q, sid)
    \/ \E q \in CreateRequests : CreateSave(q)
    \/ \E sid \in SensorIds, a \in BOOLEAN : PutSensorActive(sid, a)
    \/ Tick

-----------------------------------------------------------------------------
(* startServer(): database, MQTT client, Socket.IO, HTTP listener *)

MaxRetries == 5

\* no error thrown
NoMessage == <<>>

\* startServer() has not run yet. pc is its position, retries the local of
\* connectDatabase, db / ws / listening what has been started, exited whether
\* process.exit(1) ran; broker is the environment: whether the MQTT broker
\* accepts connections; subscribed the client's subscriptions at the broker.
\* attempts, waits and dbError are history: the mongoose.connect calls made,
\* the backoff waits in ms, and the message of the error connectDatabase threw
NotStarted(broker) ==
    [pc |-> "start", retries |-> 0, db |-> FALSE, ws |-> FALSE,
     listening |-> FALSE, exited |-> FALSE, broker |-> broker,
     subscribed |-> {}, attempts |-> 0, waits |-> <<>>, dbError |-> NoMessage]

\* startServer() has completed: database, MQTT client, Socket.IO, HTTP listener
Started ==
    [pc |-> "listening", retries |-> 0, db |-> TRUE, ws |-> TRUE,
     listening |-> TRUE, exited |-> FALSE, broker |-> "up",
     subscribed |-> SubscribedTopics, attempts |-> 1, waits |-> <<>>,
     dbError |-> NoMessage]

RECURSIVE Pow(_, _)
\* Math.pow(base, n) for a natural n
Pow(base, n) == IF n = 0 THEN 1 ELSE base * Pow(base, n - 1)

\* a backoff that grows by one second per failure
LinearWaitTime(retries) == 1000 * retries

\* waitTime: Math.min(1000 * Math.pow(2, retries), 30000)
WaitTime(retries) == Min(1000 * Pow(2, retries), 30000)

\* the catch block of startServer: logger.error, process.exit(1)
StartServerCatch(b) == [b EXCEPT !.pc = "exited", !.exited = TRUE]

\* connectDatabase(): one pass of the retry loop, up to its await.
\* mongoose.connect succeeds and the function returns; or it fails: retries++,
\* then after maxRetries failures the Error is thrown to startServer, and
\* otherwise the wait of waitTime ms begins
ConnectDatabase(ok) ==
    /\ boot.pc = "start"
    /\ boot' = IF ok
               THEN [boot EXCEPT !.pc = "db", !.db = TRUE, !.attempts = @ + 1]
               ELSE IF boot.retries + 1 = MaxRetries
                    THEN StartServerCatch(
                            [boot EXCEPT !.retries = @ + 1, !.attempts = @ + 1,
                                         !.dbError =
                                            <<"Failed to connect to MongoDB after ",
                                              MaxRetries, " attempts">>])
                    ELSE [boot EXCEPT !.pc = "backoff", !.retries = @ + 1,
                                      !.attempts = @ + 1,
                                      !.waits = Append(@, WaitTime(boot.retries + 1))]
    /\ UNCHANGED pipeVars
    /\ UNCHANGED readVars
    /\ UNCHANGED <<sockets, direct, sim, del, weather, create, front>>

\* the setTimeout of the backoff fires and the loop goes round
DatabaseBackoff ==
    /\ boot.pc = "backoff"
    /\ boot' = [boot EXCEPT !.pc = "start"]
    /\ UNCHANGED pipeVars
    /\ UNCHANGED readVars
    /\ UNCHANGED <<sockets, direct, sim, del, weather, create, front>>

\* initializeMQTT(): mqtt.connect is called and startServer awaits the promise
InitializeMQTT ==
    /\ boot.pc = "db"
    /\ boot' = [boot EXCEPT !.pc = "mqtt"]
    /\ UNCHANGED pipeVars
    /\ UNCHANGED readVars
    /\ UNCHANGED <<sockets, direct, sim, del, weather, create, front>>

\* mqttClient.on('connect'): subscribe, resolve(mqttClient); startServer goes
\* on if it was awaiting
MqttOnConnect ==
    /\ boot.pc \in {"mqtt", "mqttDone", "ws", "listening"}
    /\ boot.broker = "up"
    /\ ~mqttConnected
    /\ mqttConnected' = TRUE
    /\ boot' = [boot EXCEPT !.pc = IF @ = "mqtt" THEN "mqttDone" ELSE @,
                            !.subscribed = OnConnectSubscriptions]
    /\ UNCHANGED <<now, sensors, readings, nextId, post, msgs, connected,
                   rooms, subscribedAllAt, emitted, crashed>>
    /\ UNCHANGED readVars
    /\ UNCHANGED <<sockets, direct, sim, del, weather, create, front>>

\* mqttClient.on('error') while not connected and startServer is awaiting:
\* reject(error) reaches the catch block of startServer. (Once the promise
\* has settled a further reject changes nothing.)
MqttOnError ==
    /\ boot.pc = "mqtt"
    /\ boot.broker = "down"
    /\ ~mqttConnected
    /\ boot' = StartServerCatch(boot)
    /\ UNCHANGED pipeVars
    /\ UNCHANGED readVars
    /\ UNCHANGED <<sockets, direct, sim, del, weather, create, front>>

\* initializeWebSocket(httpServer)
InitializeWebSocket ==
    /\ boot.pc = "mqttDone"
    /\ boot' = [boot EXCEPT !.pc = "ws", !.ws = TRUE]
    /\ UNCHANGED pipeVars
    /\ UNCHANGED readVars
    /\ UNCHANGED <<sockets, direct, sim, del, weather, create, front>>

\* httpServer.listen(PORT)
Listen ==
    /\ boot.pc = "ws"
    /\ boot' = [boot EXCEPT !.pc = "listening", !.listening = TRUE]
    /\ UNCHANGED pipeVars
    /\ UNCHANGED readVars
    /\ UNCHANGED <<sockets, direct, sim, del, weather, create, front>>

\* the environment: the broker stops or starts accepting connections
BrokerChange(broker) ==
    /\ boot.broker # broker
    /\ boot' = [boot EXCEPT !.broker = broker]
    /\ UNCHANGED pipeVars
    /\ UNCHANGED readVars
    /\ UNCHANGED <<sockets, direct, sim, del, weather, create, front>>

-----------------------------------------------------------------------------
(* Front end: WebSocketService (services/websocket.ts) *)

MaxReconnects == 2

\* the server events setupEventHandlers forwards to the local listeners
FrontEvents == {"connected", "iot:reading", "weather:update", "sensor:status", "pong"}

\* the callbacks components register with on(event, handler)
Handlers == {"h1", "h2"}

\* a fresh service: socket null, listeners an empty Map. handlers counts the
\* callbacks registered on the socket for each server event; last and calls
\* record the last server event received and how often it invoked each
\* listener that was registered for it
NoFront ==
    [socket |-> "none",
     handlers |-> [e \in FrontEvents |-> 0],
     reconnects |-> 0,
     listeners |-> [e \in FrontEvents |-> {}],
     last |-> "none",
     calls |-> <<>>]

\* setupEventHandlers(): one more this.socket.on(event, ...) callback for each
\* of the five events; nothing removes the callbacks registered before
SetupEventHandlers(handlers) == [e \in FrontEvents |-> handlers[e] + 1]

\* connect() of a service that has no socket: io(WS_URL, {reconnection: true})
\* creates the socket and registers the 'connect' callback
FrontConnect ==
    /\ front.socket = "none"
    /\ front' = [front EXCEPT !.socket = "connecting",
                              !.handlers = [e \in FrontEvents |-> 0],
                              !.reconnects = 0]
    /\ UNCHANGED pipeVars
    /\ UNCHANGED readVars
    /\ UNCHANGED <<sockets, direct, sim, del, weather, boot, create>>

\* the socket fires 'connect', on the first connection and on every
\* reconnection of the same Socket object: the callback resets
\* reconnectAttempts and calls setupEventHandlers()
OnSocketConnect ==
    /\ front.socket \in {"connecting", "dropped"}
    /\ front' = [front EXCEPT
                    !.socket = "connected",
                    !.handlers = SetupEventHandlers(front.handlers),
                    !.reconnects = IF front.socket = "dropped" THEN @ + 1 ELSE @]
    /\ UNCHANGED pipeVars
    /\ UNCHANGED readVars
    /\ UNCHANGED <<sockets, direct, sim, del, weather, boot, create>>

\* the transport closes (server restart, network loss): the socket fires
\* 'disconnect', which only logs, and the manager starts reconnecting
OnSocketDisconnect ==
    /\ front.socket = "connected"
    /\ front.reconnects < MaxReconnects
    /\ front' = [front EXCEPT !.socket = "dropped"]
    /\ UNCHANGED pipeVars
    /\ UNCHANGED readVars
    /\ UNCHANGED <<sockets, direct, sim, del, weather, boot, create>>

\* disconnect(): the socket is closed and dropped, the listeners are cleared
FrontDisconnect ==
    /\ front.socket # "none"
    /\ front' = [front EXCEPT !.socket = "none",
                              !.handlers = [e \in FrontEvents |-> 0],
                              !.listeners = [e \in FrontEvents |-> {}]]
    /\ UNCHANGED pipeVars
    /\ UNCHANGED readVars
    /\ UNCHANGED <<sockets, direct, sim, del, weather, boot, create>>

\* on(event, handler): the handler joins the Set of the event
FrontOn(event, h) ==
    /\ h \notin front.listeners[event]
    /\ front' = [front EXCEPT !.listeners[event] = @ \cup {h}]
    /\ UNCHANGED pipeVars
    /\ UNCHANGED readVars
    /\ UNCHANGED <<sockets, direct, sim, del, weather, boot, create>>

\* off(event, handler)
FrontOff(event, h) ==
    /\ h \in front.listeners[event]
    /\ front' = [front EXCEPT !.listeners[event] = @ \ {h}]
    /\ UNCHANGED pipeVars
    /\ UNCHANGED readVars
    /\ UNCHANGED <<sockets, direct, sim, del, weather, boot, create>>

\* the socket receives one server event: each callback registered on the
\* socket for it runs this.emit(event, data), and each emit calls every
\* listener in the Set of the event once
FrontReceive(event) ==
    /\ front.socket = "connected"
    /\ front' = [front EXCEPT
                    !.last = event,
                    !.calls = [h \in front.listeners[event] |->
                                   front.handlers[event]]]
    /\ UNCHANGED pipeVars
    /\ UNCHANGED readVars
    /\ UNCHANGED <<sockets, direct, sim, del, weather, boot, create>>

\* no request, message or socket yet
InitControl ==
    /\ now = 0
    /\ nextId = 1
    /\ post = [r \in Requests |-> NoPost]
    /\ msgs = [m \in MsgIds |-> NoMsg]
    /\ mqttConnected = TRUE
    /\ connected = {}
    /\ rooms = [c \in Connections |-> {}]
    /\ subscribedAllAt = [c \in Connections |-> NoTime]
    /\ emitted = <<>>
    /\ crashed = FALSE
    /\ sockets = {}
    /\ direct = NoSend
    /\ sim = [q \in SimRequests |-> NoSim]
    /\ del = NoDelete
    /\ weather = NoWeather
    /\ boot = Started
    /\ create = [q \in CreateRequests |-> NoCreate]
    /\ front = NoFront

\* sensor s1 is registered and active; s2 is an id no Sensor document has
SeededSensors == [s \in SensorIds |-> IF s = "s1" THEN SensorDoc(TRUE) ELSE NoSensor]

InitPipe ==
    /\ InitControl
    /\ sensors = SeededSensors
    /\ readings = {}

InitRead ==
    /\ response = NoResponse
    /\ prevResponse = NoResponse

Init == InitPipe /\ InitRead

\* the process has not started: nothing is connected
InitStart ==
    /\ now = 0
    /\ nextId = 1
    /\ post = [r \in Requests |-> NoPost]
    /\ msgs = [m \in MsgIds |-> NoMsg]
    /\ mqttConnected = FALSE
    /\ connected = {}
    /\ rooms = [c \in Connections |-> {}]
    /\ subscribedAllAt = [c \in Connections |-> NoTime]
    /\ emitted = <<>>
    /\ crashed = FALSE
    /\ sockets = {}
    /\ direct = NoSend
    /\ sim = [q \in SimRequests |-> NoSim]
    /\ del = NoDelete
    /\ weather = NoWeather
    /\ boot \in {NotStarted(broker) : broker \in {"up", "down"}}
    /\ create = [q \in CreateRequests |-> NoCreate]
    /\ front = NoFront
    /\ sensors = SeededSensors
    /\ readings = {}
    /\ response = NoResponse
    /\ prevResponse = NoResponse

\* startServer() with the broker coming and going; once Socket.IO is
\* initialized sockets connect, and the clock advances
NextStart ==
    \/ \E ok \in BOOLEAN : ConnectDatabase(ok)
    \/ DatabaseBackoff
    \/ InitializeMQTT
    \/ MqttOnConnect
    \/ MqttOnError
    \/ ~boot.exited /\ MqttClose
    \/ InitializeWebSocket
    \/ Listen
    \/ \E broker \in {"up", "down"} : BrokerChange(broker)
    \/ \E c \in Connections : boot.listening /\ Connect(c)
    \/ \E c \in Connections : boot.listening /\ Disconnect(c)
    \/ ~boot.exited /\ Tick

SpecStart == InitStart /\ [][NextStart]_vars

\* the same where a pending mongoose.connect settles (serverSelectionTimeoutMS)
\* and a pending backoff timer fires
SpecStartFair ==
    /\ SpecStart
    /\ WF_vars(\E ok \in BOOLEAN : ConnectDatabase(ok))
    /\ WF_vars(DatabaseBackoff)

Next ==
    \/ \E r \in Requests, sid \in SensorIds, b \in RestBodies : PostFindSensor(r, sid, b)
    \/ \E r \in Requests : PostCheckSensor(r)
    \/ \E r \in Requests : PostSaveReading(r)
    \/ \E r \in Requests : PostSaveSensor(r)
    \/ \E r \in Requests : PostFinish(r)
    \/ \E q \in SimRequests, target \in SimTargets : SimFindSensor(q, target)
    \/ \E q \in SimRequests : SimCheckSensor(q)
    \/ \E q \in SimRequests : SimSaveReading(q)
    \/ \E q \in SimRequests : SimSaveSensor(q)
    \/ \E q \in SimRequests : SimFinish(q)
    \/ \E m \in MsgIds, sid \in SensorIds, p \in DevicePayloads : DeviceMessage(m, sid, p)
    \/ \E m \in MsgIds : LoopbackDeliver(m)
    \/ \E m \in MsgIds : LoopbackDrop(m)
    \/ \E m \in MsgIds : SensorDataSave(m)
    \/ \E m \in MsgIds : SensorDataBroadcast(m)
    \/ MqttClose
    \/ MqttConnect
    \/ \E c \in Clients : Connect(c)
    \/ \E c \in Clients : Disconnect(c)
    \/ \E c \in Clients, sid \in WatchedIds : SubscribeSensor(c, sid)
    \/ \E c \in Clients, sid \in WatchedIds : UnsubscribeSensor(c, sid)
    \/ \E c \in Clients : SubscribeAll(c)
    \/ \E c \in Clients : SubscribeWeather(c)
    \/ \E c \in Connections : SendToClient(c)
    \/ \E m \in MsgIds, sid \in SensorIds, p \in StatusPayloads : StatusMessage(m, sid, p)
    \/ \E m \in MsgIds, sid \in SensorIds, p \in DevicePayloads : DevicePublishOffline(m, sid, p)
    \/ WeatherUpdate
    \/ \E ok \in BOOLEAN : GetCurrentWeather(ok)
    \/ \E ok \in BOOLEAN, cause \in UpstreamFailures : FetchWeather(ok, cause)
    \/ StoreWeatherData
    \/ BroadcastWeather
    \/ \E q \in CreateRequests, sid \in SensorIds : CreateFindSensor(q, sid)
    \/ \E q \in CreateRequests : CreateSave(q)
    \/ \E ok \in BOOLEAN : ConnectDatabase(ok)
    \/ DatabaseBackoff
    \/ InitializeMQTT
    \/ MqttOnConnect
    \/ MqttOnError
    \/ InitializeWebSocket
    \/ Listen
    \/ \E broker \in {"up", "down"} : BrokerChange(broker)
    \/ \E sid \in SensorIds, a \in BOOLEAN : PutSensorActive(sid, a)
    \/ \E sid \in SensorIds : DeleteSensor(sid)
    \/ DeleteReadings
    \/ Tick
    \/ FrontConnect
    \/ OnSocketConnect
    \/ OnSocketDisconnect
    \/ FrontDisconnect
    \/ \E e \in FrontEvents, h \in Handlers : FrontOn(e, h)
    \/ \E e \in FrontEvents, h \in Handlers : FrontOff(e, h)
    \/ \E e \in FrontEvents : FrontReceive(e)

Spec == Init /\ [][Next]_vars

-----------------------------------------------------------------------------
(* Sub-specifications: the full system split by activity stream *)

ClientStep ==
    \/ \E c \in Clients : Connect(c)
    \/ \E c \in Clients : Disconnect(c)
    \/ \E c \in Clients, sid \in WatchedIds : SubscribeSensor(c, sid)
    \/ \E c \in Clients, sid \in WatchedIds : UnsubscribeSensor(c, sid)
    \/ \E c \in Clients : SubscribeAll(c)

\* REST ingestion with the bus client looping the republished copy back, no
\* browser connected
NextRestServer ==
    \/ \E r \in Requests, sid \in SensorIds, b \in RestBodies : PostFindSensor(r, sid, b)
    \/ \E r \in Requests : PostCheckSensor(r)
    \/ \E r \in Requests : PostSaveReading(r)
    \/ \E r \in Requests : PostSaveSensor(r)
    \/ \E r \in Requests : PostFinish(r)
    \/ \E m \in MsgIds : LoopbackDeliver(m)
    \/ \E m \in MsgIds : LoopbackDrop(m)
    \/ \E m \in MsgIds : SensorDataSave(m)
    \/ \E m \in MsgIds : SensorDataBroadcast(m)
    \/ MqttClose
    \/ MqttConnect
    \/ \E sid \in SensorIds, a \in BOOLEAN : PutSensorActive(sid, a)
    \/ Tick

SpecRestServer == Init /\ [][NextRestServer]_vars

\* the same with a browser connecting and subscribing
NextRest ==
    \/ NextRestServer
    \/ ClientStep

SpecRest == Init /\ [][NextRest]_vars

\* bus ingestion of device messages, no browser connected
NextBusServer ==
    \/ \E m \in MsgIds, sid \in SensorIds, p \in DevicePayloads : DeviceMessage(m, sid, p)
    \/ \E m \in MsgIds : SensorDataSave(m)
    \/ \E m \in MsgIds : SensorDataBroadcast(m)
    \/ MqttClose
    \/ MqttConnect
    \/ Tick

SpecBusServer == Init /\ [][NextBusServer]_vars

\* status and data messages from devices, with sensors registered or not
NextStatus ==
    \/ \E m \in MsgIds, sid \in SensorIds, p \in StatusPayloads : StatusMessage(m, sid, p)
    \/ \E m \in MsgIds, sid \in SensorIds, p \in DevicePayloads : DeviceMessage(m, sid, p)
    \/ \E m \in MsgIds : SensorDataSave(m)
    \/ \E m \in MsgIds : SensorDataBroadcast(m)
    \/ \E sid \in SensorIds, a \in BOOLEAN : PutSensorActive(sid, a)
    \/ \E c \in Clients : Connect(c)
    \/ \E c \in Clients : Disconnect(c)

SpecStatus == Init /\ [][NextStatus]_vars

\* the broker connection coming and going while devices publish and a REST
\* request republishes
NextReconnect ==
    \/ \E m \in MsgIds, sid \in WatchedIds : DeviceMessage(m, sid, WellFormed)
    \/ \E m \in MsgIds, sid \in WatchedIds : DevicePublishOffline(m, sid, WellFormed)
    \/ \E sid \in WatchedIds : PostFindSensor(1, sid, "temp")
    \/ \E r \in Requests : PostCheckSensor(r)
    \/ \E r \in Requests : PostSaveReading(r)
    \/ \E r \in Requests : PostSaveSensor(r)
    \/ \E r \in Requests : PostFinish(r)
    \/ \E m \in MsgIds : LoopbackDeliver(m)
    \/ \E m \in MsgIds : LoopbackDrop(m)
    \/ \E m \in MsgIds : SensorDataSave(m)
    \/ \E m \in MsgIds : SensorDataBroadcast(m)
    \/ MqttClose
    \/ MqttConnect

SpecReconnect == Init /\ [][NextReconnect]_vars

\* the same with a browser connecting and subscribing
NextBus ==
    \/ NextBusServer
    \/ ClientStep

SpecBus == Init /\ [][NextBus]_vars

\* both ingestion paths side by side: the REST requests and one device
\* message, the broker up throughout
NextIngest ==
    \/ \E r \in Requests, sid \in SensorIds, b \in RestBodies : PostFindSensor(r, sid, b)
    \/ \E r \in Requests : PostCheckSensor(r)
    \/ \E r \in Requests : PostSaveReading(r)
    \/ \E r \in Requests : PostSaveSensor(r)
    \/ \E r \in Requests : PostFinish(r)
    \/ \E sid \in SensorIds, p \in DevicePayloads : DeviceMessage(1, sid, p)
    \/ \E m \in MsgIds : LoopbackDeliver(m)
    \/ \E m \in MsgIds : SensorDataSave(m)
    \/ \E m \in MsgIds : SensorDataBroadcast(m)

SpecIngest == Init /\ [][NextIngest]_vars

\* two REST ingestion routes writing lastReading, and the admin update
NextLastReading ==
    \/ \E r \in Requests, sid \in SensorIds, b \in RestBodies : PostFindSensor(r, sid, b)
    \/ \E r \in Requests : PostCheckSensor(r)
    \/ \E r \in Requests : PostSaveReading(r)
    \/ \E r \in Requests : PostSaveSensor(r)
    \/ \E r \in Requests : PostFinish(r)
    \/ \E q \in SimRequests, target \in SimTargets : SimFindSensor(q, target)
    \/ \E q \in SimRequests : SimCheckSensor(q)
    \/ \E q \in SimRequests : SimSaveReading(q)
    \/ \E q \in SimRequests : SimSaveSensor(q)
    \/ \E q \in SimRequests : SimFinish(q)
    \/ \E sid \in SensorIds, a \in BOOLEAN : PutSensorActive(sid, a)
    \/ Tick

SpecLastReading == Init /\ [][NextLastReading]_vars

\* the browser's service: one component listens to any of the events, a
\* second one to iot:reading; the socket connects, drops and reconnects, and
\* server events arrive
NextFront ==
    \/ FrontConnect
    \/ OnSocketConnect
    \/ OnSocketDisconnect
    \/ FrontDisconnect
    \/ \E e \in FrontEvents : FrontOn(e, "h1")
    \/ \E e \in FrontEvents : FrontOff(e, "h1")
    \/ FrontOn("iot:reading", "h2")
    \/ FrontOff("iot:reading", "h2")
    \/ \E e \in FrontEvents : FrontReceive(e)

SpecFront == Init /\ [][NextFront]_vars

\* the three sources of iot:reading events side by side: a device message, a
\* REST submission with its republished copy, and a simulated reading
NextBroadcast ==
    \/ \E sid \in WatchedIds : DeviceMessage(1, sid, WellFormed)
    \/ \E sid \in WatchedIds : PostFindSensor(1, sid, "temp")
    \/ PostCheckSensor(1)
    \/ PostSaveReading(1)
    \/ PostSaveSensor(1)
    \/ PostFinish(1)
    \/ \E target \in SimTargets : SimFindSensor(1, target)
    \/ SimCheckSensor(1)
    \/ SimSaveReading(1)
    \/ SimSaveSensor(1)
    \/ SimFinish(1)
    \/ \E m \in MsgIds : LoopbackDeliver(m)
    \/ \E m \in MsgIds : SensorDataSave(m)
    \/ \E m \in MsgIds : SensorDataBroadcast(m)

SpecBroadcast == Init /\ [][NextBroadcast]_vars

\* a sensor is deleted while a device message and REST requests are ingested
NextDelete ==
    \/ \E sid \in SensorIds : DeleteSensor(sid)
    \/ DeleteReadings
    \/ \E r \in Requests, sid \in SensorIds, b \in RestBodies : PostFindSensor(r, sid, b)
    \/ \E r \in Requests : PostCheckSensor(r)
    \/ \E r \in Requests : PostSaveReading(r)
    \/ \E r \in Requests : PostSaveSensor(r)
    \/ \E r \in Requests : PostFinish(r)
    \/ \E sid \in SensorIds, p \in DevicePayloads : DeviceMessage(1, sid, p)
    \/ \E m \in MsgIds : SensorDataSave(m)
    \/ \E m \in MsgIds : SensorDataBroadcast(m)

SpecDelete == Init /\ [][NextDelete]_vars

\* two sockets connecting, subscribing and leaving while one device message
\* is ingested and broadcast
NextSockets ==
    \/ \E c \in Connections : Connect(c)
    \/ \E c \in Connections : Disconnect(c)
    \/ \E c \in Connections, sid \in WatchedIds : SubscribeSensor(c, sid)
    \/ \E c \in Connections, sid \in WatchedIds : UnsubscribeSensor(c, sid)
    \/ \E c \in Connections : SubscribeWeather(c)
    \/ \E c \in Connections : SubscribeAll(c)
    \/ \E c \in Connections : SendToClient(c)
    \/ \E sid \in WatchedIds, p \in DevicePayloads : DeviceMessage(1, sid, p)
    \/ \E m \in MsgIds : SensorDataSave(m)
    \/ \E m \in MsgIds : SensorDataBroadcast(m)

SpecSockets == Init /\ [][NextSockets]_vars

SpecWeather == Init /\ [][NextWeather]_vars

SpecCodes == Init /\ [][NextCodes]_vars

SpecCreate == Init /\ [][NextCreate]_vars

-----------------------------------------------------------------------------
(* Read queries over the readings collection *)

\* the sort with the direction reversed, {timestamp: 1}
SortFirstAscending(S) == {x \in S : \A y \in S : x.ts <= y.ts}

\* $sort / .sort({timestamp: -1}): the documents that may come first. The
\* sort has no second key, so documents with equal timestamps may come in
\* either order, and in a different order from one query to the next
SortFirst(S) == {x \in S : \A y \in S : x.ts >= y.ts}

RECURSIVE SortedOrders(_)
\* every order find().sort({timestamp: -1}) may return the documents S in
SortedOrders(S) ==
    IF S = {} THEN {<<>>}
    ELSE UNION {{<<x>> \o t : t \in SortedOrders(S \ {x})} : x \in SortFirst(S)}

RECURSIVE GroupFirst(_, _)
\* $group {_id: '$sensorId', reading: {$first: '$$ROOT'}} and $replaceRoot:
\* the first document of each sensorId in the sorted stream
GroupFirst(docs, seen) ==
    IF docs = <<>> THEN <<>>
    ELSE IF Head(docs).sensorId \in seen THEN GroupFirst(Tail(docs), seen)
    ELSE <<Head(docs)>> \o GroupFirst(Tail(docs), seen \cup {Head(docs).sensorId})

\* sensor: sensorMap.get(reading.sensorId) || null
Enrich(doc) ==
    [reading |-> doc,
     sensor |-> IF sensors[doc.sensorId].exists THEN sensors[doc.sensorId] ELSE None]

\* GET /api/iot/readings/latest
GetLatest ==
    /\ \E order \in SortedOrders(readings) :
         LET latestReadings == GroupFirst(order, {}) IN
         response' = [kind |-> "latest", status |-> 200,
                      data |-> [i \in 1..Len(latestReadings) |-> Enrich(latestReadings[i])],
                      count |-> Len(latestReadings)]
    /\ prevResponse' = response
    /\ UNCHANGED pipeVars
    /\ UNCHANGED opsVars

\* a query parameter: absent, or the integer its text denotes
Absent == [given |-> FALSE, v |-> 0]
Param(n) == [given |-> TRUE, v |-> n]

DefaultPage == 1
DefaultLimit == 50
LimitCap == 100

\* validatePagination: page isInt({min: 1}), limit isInt({min: 1, max: 100}),
\* both optional
ValidatePagination(page, limit) ==
    /\ page.given => page.v >= 1
    /\ limit.given => (limit.v >= 1 /\ limit.v <= LimitCap)

\* parseInt(req.query.x as string) || dflt
ParseIntOr(param, dflt) == IF param.given /\ param.v # 0 THEN param.v ELSE dflt

\* the skip counted from page 0
SkipCountFromZero(page, limit) == page * limit

\* const skip = (page - 1) * limit
SkipCount(page, limit) == (page - 1) * limit

\* .skip(skip).limit(limit) on a sorted stream
SkipLimit(docs, skip, limit) ==
    SubSeq(docs, skip + 1, Min(skip + limit, Len(docs)))

\* Math.ceil(total / limit)
CeilDiv(total, limit) == (total + limit - 1) \div limit

\* GET /api/iot/readings?page=&limit=&sensorId=  ("" : no sensorId filter)
GetReadings(pageParam, limitParam, sensorId) ==
    /\ IF ~ValidatePagination(pageParam, limitParam)
       THEN response' = [kind |-> "list", status |-> 400,
                         query |-> [page |-> pageParam, limit |-> limitParam,
                                    sensorId |-> sensorId]]
       ELSE LET page == ParseIntOr(pageParam, DefaultPage)
                limit == ParseIntOr(limitParam, DefaultLimit)
                matching == IF sensorId # ""
                            THEN {x \in readings : x.sensorId = sensorId}
                            ELSE readings
            IN \E order \in SortedOrders(matching) :
                 response' = [kind |-> "list", status |-> 200,
                              query |-> [page |-> pageParam, limit |-> limitParam,
                                         sensorId |-> sensorId],
                              data |-> SkipLimit(order, SkipCount(page, limit), limit),
                              pagination |-> [page |-> page, limit |-> limit,
                                              total |-> Cardinality(matching),
                                              pages |-> CeilDiv(Cardinality(matching), limit)]]
    /\ UNCHANGED prevResponse
    /\ UNCHANGED pipeVars
    /\ UNCHANGED opsVars

\* the units table of getUnit
Units ==
    [temperature |-> "°C", humidity |-> "%", pressure |-> "hPa",
     windspeed |-> "km/h", winddirection |-> "°", battery |-> "%",
     signal_strength |-> "dBm"]

\* keys every object literal inherits from Object.prototype; the model's
\* field names include one of them
InheritedKeys == {"toString", "constructor", "valueOf", "hasOwnProperty"}

\* getUnit(field): units[field] || ''. For an inherited key units[field] is
\* the inherited member, a function, which is truthy and is returned
GetUnit(field) ==
    IF field \in DOMAIN Units THEN Units[field]
    ELSE IF field \in InheritedKeys THEN "[Function]"
    ELSE ""

\* x.toFixed(digits) for x given in thousandths and digits <= 3: the decimal
\* with `digits` fraction digits nearest to x, as an integer count of
\* 10^-digits (toFixed(2) of 23.456 is "23.46": 2346)
ToFixed(x, digits) ==
    LET scale == IF digits = 3 THEN 1 ELSE IF digits = 2 THEN 10
                 ELSE IF digits = 1 THEN 100 ELSE 1000
        mag == IF x < 0 THEN 0 - x ELSE x
        q == (2 * mag + scale) \div (2 * scale)
    IN [t |-> "fixed", digits |-> digits, v |-> IF x < 0 THEN 0 - q ELSE q]

\* value: typeof value === 'number' ? value.toFixed(2) : value
LeafValue(value) == IF value.t = "num" THEN ToFixed(value.v, 2) ELSE value

\* Object.entries(latestReading.data).map(...)
Leaves(data) ==
    {[name |-> f, type |-> "data", value |-> LeafValue(data[f]), unit |-> GetUnit(f)] :
        f \in DOMAIN data}

\* the children of one sensor node
SensorChildren(latestReading) ==
    IF latestReading = None THEN {}
    ELSE {[name |-> "Latest Reading", type |-> "reading",
           timestamp |-> latestReading.ts,
           children |-> Leaves(latestReading.data)]}

\* IoTReading.findOne({sensorId}).sort({timestamp: -1}): what it may return
FindLatest(sensorId) ==
    LET own == {x \in readings : x.sensorId = sensorId} IN
    IF own = {} THEN {None} ELSE SortFirst(own)

\* GET /api/iot/tree
GetTree ==
    /\ LET registered == {s \in SensorIds : sensors[s].exists} IN
       \E latest \in [registered -> readings \cup {None}] :
         /\ \A s \in registered : latest[s] \in FindLatest(s)
         /\ response' = [kind |-> "tree", status |-> 200,
                         children |-> [s \in registered |->
                                         [sensorId |-> s, type |-> "sensor",
                                          children |-> SensorChildren(latest[s])]]]
    /\ UNCHANGED prevResponse
    /\ UNCHANGED pipeVars
    /\ UNCHANGED opsVars

-----------------------------------------------------------------------------
(* Specifications of the read queries: the store is drawn, the queries run *)

MaxStored == 3
MaxTreeStored == 2
MaxListed == 25

\* data maps as the ingestion paths store them: a REST body, a device
\* message (the known keys null where the payload lacked them), and a body
\* with extra fields, one of them named like an inherited member
DataSamples ==
    {[temperature |-> Num(23456), humidity |-> Num(55540)],
     [temperature |-> Num(20000), humidity |-> Null, pressure |-> Null,
      windspeed |-> Null, winddirection |-> Null],
     [signal_strength |-> Num(0 - 67300), custom |-> Num(1004), toString |-> Num(7000)]}

\* the stores of n documents, inserted in the order of their ids, with any
\* sensor, any timestamp up to MaxTime and any data of `samples`
Stores(n, samples) ==
    {{ReadingDoc(i, sid[i], ts[i], data[i], <<"msg", 0>>, 0) : i \in 1..n} :
        sid \in [1..n -> SensorIds], ts \in [1..n -> 0..MaxTime],
        data \in [1..n -> samples]}

InitLatest ==
    /\ InitControl /\ InitRead
    /\ sensors = SeededSensors
    /\ \E n \in 0..MaxStored :
         readings \in Stores(n, {[temperature |-> Num(21500)]})

SpecLatest == InitLatest /\ [][GetLatest]_vars

InitTree ==
    /\ InitControl /\ InitRead
    /\ \E n \in 0..MaxTreeStored : readings \in Stores(n, DataSamples)
    /\ \E registered \in SUBSET SensorIds :
         sensors = [s \in SensorIds |-> IF s \in registered THEN SensorDoc(TRUE)
                                        ELSE NoSensor]

SpecTree == InitTree /\ [][GetTree]_vars

\* n documents with distinct timestamps, every fifth one of sensor s2
ListedStore(n) ==
    {ReadingDoc(i, IF i % 5 = 0 THEN "s2" ELSE "s1", i,
                [temperature |-> Num(21500)], <<"msg", 0>>, 0) : i \in 1..n}

PageParams == {Absent, Param(0), Param(1), Param(2), Param(3)}
LimitParams == {Absent, Param(0), Param(1), Param(10), Param(100), Param(101)}

InitPage ==
    /\ InitControl /\ InitRead
    /\ sensors = SeededSensors
    /\ \E n \in 0..MaxListed : readings = ListedStore(n)

NextPage ==
    \E p \in PageParams, l \in LimitParams, sid \in {"", "s1", "s2"} :
        GetReadings(p, l, sid)

SpecPage == InitPage /\ [][NextPage]_vars

\* the default of the limit parameter of getReadingsByTimeRange
RangeLimit == 100

\* IoTReading.getReadingsByTimeRange(sensorId, startTime, endTime, limit):
\* find({sensorId, timestamp: {$gte, $lte}}).sort({timestamp: -1}).limit(limit),
\* every result it may return
GetReadingsByTimeRange(sensorId, startTime, endTime, limit) ==
    {SkipLimit(order, 0, limit) :
        order \in SortedOrders({x \in readings : /\ x.sensorId = sensorId
                                                 /\ x.ts >= startTime
                                                 /\ x.ts <= endTime})}

Range(f) == {f[i] : i \in DOMAIN f}

-----------------------------------------------------------------------------
(* C1 *)

\* the documents of a query result that stem from REST request r
FromRequest(result, r) == {i \in DOMAIN result : result[i].origin = r}

\* C1: once a valid submission for an existing, active sensor has been
\* accepted (201), every time-range query for that sensor from the
\* submission's timestamp on returns exactly one document of that submission,
\* also when the bus client is connected while the route republishes.
C1_ReturnedExactlyOnce ==
    \A r \in Requests :
        post[r].status = 201 =>
            \A result \in GetReadingsByTimeRange(post[r].sensorId, post[r].ts,
                                                 MaxTime, RangeLimit) :
                Cardinality(FromRequest(result, r)) = 1

-----------------------------------------------------------------------------
(* C2 *)

\* the emits of the history that are iot:reading events
ReadingEmits == {i \in DOMAIN emitted : emitted[i].event = "iot:reading"}

\* socket c had joined some sensor room, and not 'all-updates', at emit i
SensorSubscriberAt(i, c) ==
    /\ c \in emitted[i].conn
    /\ \E sid \in SensorIds : SensorRoom(sid) \in emitted[i].roomsAt[c]
    /\ AllUpdates \notin emitted[i].roomsAt[c]

\* C2: a socket that has subscribed to sensors (and not to all updates)
\* receives an iot:reading event exactly when it is subscribed to the sensor
\* of the event at that moment: every event of a sensor it subscribed to,
\* none of any other sensor.
C2_OnlySubscribedSensors ==
    \A i \in ReadingEmits : \A c \in Clients :
        SensorSubscriberAt(i, c) =>
            (c \in emitted[i].to <=>
                SensorRoom(emitted[i].sensorId) \in emitted[i].roomsAt[c])

-----------------------------------------------------------------------------
(* C3 *)

\* the handler that created document x has returned
CreatorDone(x) ==
    IF x.by[1] = "post" THEN post[x.by[2]].pc = "done"
    ELSE msgs[x.by[2]].pc = "done"

\* C3: a socket that joined 'all-updates' and has stayed connected since has
\* received the iot:reading event of every reading persisted since then,
\* once the handler that ingested the reading has returned.
C3_AllUpdatesGetsEveryReading ==
    \A c \in connected : \A x \in readings :
        (/\ AllUpdates \in rooms[c]
         /\ subscribedAllAt[c] # NoTime
         /\ x.id >= subscribedAllAt[c]
         /\ CreatorDone(x))
        => \E i \in ReadingEmits : emitted[i].rid = x.id /\ c \in emitted[i].to

-----------------------------------------------------------------------------
(* C4 *)

\* the step of request r that follows a findOne which returned an inactive sensor
InactiveStep(r) ==
    /\ post[r].pc = "found"
    /\ post[r].snap.exists
    /\ ~post[r].snap.isActive
    /\ post'[r] # post[r]

\* C4: the request whose sensor is inactive ends, in that step, with a 400
\* response, and the step changes no reading, no sensor (so no lastReading),
\* no broadcast and no bus message; the request, being done, takes no
\* further step.
C4_InactiveRejected ==
    [][\A r \in Requests :
          InactiveStep(r) =>
              /\ post'[r].pc = "done"
              /\ post'[r].status = 400
              /\ readings' = readings
              /\ sensors' = sensors
              /\ emitted' = emitted
              /\ msgs' = msgs]_vars

C4_Witness ==
    \E r \in Requests :
        /\ post[r].pc = "done"
        /\ post[r].snap.exists
        /\ ~post[r].snap.isActive
        /\ post[r].status = 400

-----------------------------------------------------------------------------
(* C5 *)

ReadingsBy(by) == {x \in readings : x.by = by}
EmitsBy(by) == {i \in DOMAIN emitted : emitted[i].by = by}

\* C5: no error escapes a bus handler; a handled message that was not valid
\* JSON, or whose save failed, has left no reading and no broadcast; every
\* other handled data message, whatever was handled before it, has left
\* exactly one reading of its sensor and exactly one iot:reading event of it.
C5_MalformedContained ==
    /\ ~crashed
    /\ \A m \in MsgIds :
         msgs[m].pc = "done" =>
            /\ msgs[m].outcome = "parseError" <=> ~msgs[m].payload.json
            /\ msgs[m].outcome \in {"parseError", "saveFailed"} =>
                  /\ ReadingsBy(<<"msg", m>>) = {}
                  /\ EmitsBy(<<"msg", m>>) = {}
            /\ msgs[m].outcome \notin {"parseError", "saveFailed"} =>
                  /\ Cardinality(ReadingsBy(<<"msg", m>>)) = 1
                  /\ \A x \in ReadingsBy(<<"msg", m>>) : x.sensorId = msgs[m].sensorId
                  /\ Cardinality(EmitsBy(<<"msg", m>>)) = 1
                  /\ \A i \in EmitsBy(<<"msg", m>>) :
                        /\ emitted[i].event = "iot:reading"
                        /\ emitted[i].sensorId = msgs[m].sensorId
                        /\ emitted[i].rid \in {x.id : x \in ReadingsBy(<<"msg", m>>)}

\* a malformed message was handled, then a well-formed one on the same topic
C5_Witness ==
    \E m1, m2 \in MsgIds :
        /\ m1 < m2
        /\ msgs[m1].pc = "done" /\ msgs[m1].outcome = "parseError"
        /\ msgs[m2].pc = "done" /\ msgs[m2].outcome = "ok"
        /\ msgs[m1].sensorId = msgs[m2].sensorId
        /\ ReadingsBy(<<"msg", m2>>) # {}
        /\ EmitsBy(<<"msg", m2>>) # {}

-----------------------------------------------------------------------------
(* C10 *)

\* C10: for every handled well-formed data message the iot:reading event was
\* broadcast whether or not the save succeeded, and the reading was persisted
\* unless the save itself failed.
C10_PersistAndBroadcastIndependent ==
    \A m \in MsgIds :
        (msgs[m].pc = "done" /\ msgs[m].payload.json) =>
            /\ EmitsBy(<<"msg", m>>) # {}
            /\ msgs[m].outcome # "saveFailed" => ReadingsBy(<<"msg", m>>) # {}

-----------------------------------------------------------------------------
(* C6 *)

StoredSensorIds == {x.sensorId : x \in readings}

\* C6: the latest-per-sensor response has one entry for each sensorId that
\* has a reading, registered or not, and none for any other id; each entry is
\* a stored reading whose timestamp is >= that of every reading of its sensor.
C6_LatestPerSensor ==
    response.kind = "latest" =>
        /\ response.count = Len(response.data)
        /\ Len(response.data) = Cardinality(StoredSensorIds)
        /\ {response.data[i].reading.sensorId : i \in DOMAIN response.data}
              = StoredSensorIds
        /\ \A i \in DOMAIN response.data :
              /\ response.data[i].reading \in readings
              /\ \A y \in readings :
                    y.sensorId = response.data[i].reading.sensorId
                        => response.data[i].reading.ts >= y.ts

\* both sensors have readings, one of them an older and a newer one
C6_Witness ==
    /\ response.kind = "latest"
    /\ Len(response.data) = 2
    /\ \E x, y \in readings : x.sensorId = y.sensorId /\ x.ts < y.ts
    /\ \E x \in readings : ~sensors[x.sensorId].exists

-----------------------------------------------------------------------------
(* C7 *)

\* C7: two consecutive latest-per-sensor queries over the same store return
\* the same entries, also when readings of a sensor share its greatest
\* timestamp.
C7_LatestRepeatable ==
    (response.kind = "latest" /\ prevResponse.kind = "latest") =>
        Range(response.data) = Range(prevResponse.data)

-----------------------------------------------------------------------------
(* C8 *)

\* the documents GET /readings of the last response ranges over
Listed ==
    IF response.query.sensorId = "" THEN readings
    ELSE {x \in readings : x.sensorId = response.query.sensorId}

\* the position of x when Listed is sorted by timestamp descending
PositionOf(x) == 1 + Cardinality({y \in Listed : y.ts > x.ts})

\* C8: for N readings, page p and limit l, the response holds the readings
\* at positions (p-1)*l+1 .. min(p*l, N) of the descending order, in that
\* order, and pagination {page: p, limit: l, total: N, pages: ceil(N/l)}.
C8_Pagination ==
    (response.kind = "list" /\ response.status = 200) =>
        LET pg == response.pagination
            N == Cardinality(Listed)
            first == (pg.page - 1) * pg.limit + 1
            last == Min(pg.page * pg.limit, N)
        IN /\ response.query.page.given => pg.page = response.query.page.v
           /\ response.query.limit.given => pg.limit = response.query.limit.v
           /\ pg.limit >= 1 /\ pg.limit <= LimitCap
           /\ Len(response.data) = IF last >= first THEN last - first + 1 ELSE 0
           /\ \A i \in DOMAIN response.data :
                 /\ response.data[i] \in Listed
                 /\ PositionOf(response.data[i]) = first + i - 1
           /\ pg.total = N
           /\ pg.pages * pg.limit >= N
           /\ (pg.pages - 1) * pg.limit < N

\* page 2 with limit 10 of 25 readings: readings 11..20 and pages = 3
C8_Witness ==
    /\ response.kind = "list" /\ response.status = 200
    /\ response.query.page = Param(2) /\ response.query.limit = Param(10)
    /\ response.pagination.total = 25
    /\ response.pagination.pages = 3
    /\ Len(response.data) = 10
    /\ PositionOf(response.data[1]) = 11
    /\ PositionOf(response.data[10]) = 20

-----------------------------------------------------------------------------
(* C9 *)

\* the unit table as the specification states it
StatedUnit(field) ==
    CASE field = "temperature" -> "°C"
      [] field = "humidity" -> "%"
      [] field = "pressure" -> "hPa"
      [] field = "windspeed" -> "km/h"
      [] field = "winddirection" -> "°"
      [] field = "battery" -> "%"
      [] field = "signal_strength" -> "dBm"
      [] OTHER -> ""

Abs(n) == IF n < 0 THEN 0 - n ELSE n

\* leaf value lv is number x (in thousandths) formatted to `digits` places
FormattedTo(lv, x, digits) ==
    LET scale == IF digits = 1 THEN 100 ELSE 10 IN
    /\ lv.t = "fixed"
    /\ lv.digits = digits
    /\ 2 * Abs(lv.v * scale - x) <= scale

\* the leaves are those of reading x, numbers formatted to `digits` places,
\* units as stated (for every field, or for all but the inherited names)
LeavesOf(leaves, x, digits, everyField) ==
    /\ {l.name : l \in leaves} = DOMAIN x.data
    /\ Cardinality(leaves) = Cardinality(DOMAIN x.data)
    /\ \A l \in leaves :
          /\ IF x.data[l.name].t = "num"
             THEN FormattedTo(l.value, x.data[l.name].v, digits)
             ELSE l.value = x.data[l.name]
          /\ IF everyField \/ l.name \notin InheritedKeys
             THEN l.unit = StatedUnit(l.name)
             ELSE l.unit # ""

\* every registered sensor with a reading has one 'Latest Reading' node whose
\* leaves are those of a reading of the sensor with the greatest timestamp
TreeShowsLatest(digits, everyField) ==
    response.kind = "tree" =>
        \A s \in DOMAIN response.children :
            (\E x \in readings : x.sensorId = s) =>
                \E x \in readings : \E node \in response.children[s].children :
                    /\ x.sensorId = s
                    /\ \A y \in readings : y.sensorId = s => x.ts >= y.ts
                    /\ response.children[s].children = {node}
                    /\ node.name = "Latest Reading"
                    /\ node.timestamp = x.ts
                    /\ LeavesOf(node.children, x, digits, everyField)

\* C9 as stated: numeric leaves formatted to one decimal place, the table's
\* unit or the empty string for every field.
C9_OneDecimal == TreeShowsLatest(1, TRUE)


-----------------------------------------------------------------------------
(* C11 *)

\* m1 was delivered before m2 on the data topic of the same sensor and both
\* handlers have returned after a successful save and broadcast
DeliveredInOrder(m1, m2) ==
    /\ m1 < m2
    /\ msgs[m1].pc = "done" /\ msgs[m1].outcome = "ok"
    /\ msgs[m2].pc = "done" /\ msgs[m2].outcome = "ok"
    /\ msgs[m1].sensorId = msgs[m2].sensorId

\* C11: of two messages delivered in that order on one sensor's data topic,
\* the reading of the first has a timestamp not later than that of the second
\* and the iot:reading event of the first is broadcast before that of the
\* second, however the two handlers interleave.
C11_TopicOrderPreserved ==
    \A m1, m2 \in 1..MaxMsgs :
        DeliveredInOrder(m1, m2) =>
            /\ \A x \in ReadingsBy(<<"msg", m1>>) : \A y \in ReadingsBy(<<"msg", m2>>) :
                  x.ts <= y.ts
            /\ \A i \in EmitsBy(<<"msg", m1>>) : \A j \in EmitsBy(<<"msg", m2>>) : i < j

-----------------------------------------------------------------------------
(* C20 *)

\* the data map has at least one field that carries a value
CarriesValue(data) == \E f \in DOMAIN data : data[f] # Null

\* C20: every persisted reading has a non-empty data map, at least one field
\* carrying a value, whichever path created it.
C20_DataNonEmpty == \A x \in readings : CarriesValue(x.data)


-----------------------------------------------------------------------------
(* C12 *)

\* no Sensor document has this id
Unregistered(sid) == ~sensors[sid].exists

\* C12: a well-formed data message from the bus for an id with no registered
\* Sensor is persisted as a reading of that id and broadcast (unless the store
\* fails the insert), while a REST submission for such an id ends with 404,
\* without a reading, a broadcast or a bus message of its own.
C12_OrphanAsymmetry ==
    /\ \A m \in 1..MaxMsgs :
          (/\ msgs[m].pc = "done"
           /\ msgs[m].payload.json
           /\ msgs[m].outcome # "saveFailed"
           /\ Unregistered(msgs[m].sensorId))
          => /\ \E x \in ReadingsBy(<<"msg", m>>) : x.sensorId = msgs[m].sensorId
             /\ \E i \in EmitsBy(<<"msg", m>>) :
                   /\ emitted[i].event = "iot:reading"
                   /\ emitted[i].sensorId = msgs[m].sensorId
    /\ \A r \in Requests :
          (/\ post[r].pc # "idle"
           /\ ValidateIoTReading(post[r].body)
           /\ ~post[r].snap.exists)
          => /\ post[r].pc \in {"found", "done"}
             /\ post[r].pc = "done" => post[r].status = 404
             /\ ReadingsBy(<<"post", r>>) = {}
             /\ EmitsBy(<<"post", r>>) = {}
             /\ msgs[LoopMsg(r)].pc = "none"

\* the same unregistered id ingested from the bus and rejected on REST
C12_Witness ==
    \E m \in 1..MaxMsgs, r \in Requests :
        /\ msgs[m].pc = "done" /\ msgs[m].outcome = "ok"
        /\ Unregistered(msgs[m].sensorId)
        /\ ReadingsBy(<<"msg", m>>) # {}
        /\ post[r].pc = "done" /\ post[r].status = 404
        /\ post[r].sensorId = msgs[m].sensorId


-----------------------------------------------------------------------------
(* C13 *)

\* the step is the successful sensor.save() of a reading ingestion for sid
IngestionSavesSensor(sid) ==
    \/ \E r \in Requests :
          /\ post[r].pc = "savedReading" /\ post'[r].pc = "savedSensor"
          /\ post[r].sensorId = sid
    \/ \E q \in SimRequests :
          /\ sim[q].pc = "savedReading" /\ sim'[q].pc = "savedSensor"
          /\ sim[q].sensorId = sid

\* C13: while a sensor exists its lastReading never decreases, whatever the
\* interleaving of the requests, and it changes only in the step in which a
\* reading ingestion saves the sensor.
C13_LastReadingMonotonic ==
    [][\A sid \in SensorIds :
          (sensors[sid].exists /\ sensors'[sid].exists) =>
              /\ sensors'[sid].lastReading >= sensors[sid].lastReading
              /\ sensors'[sid].lastReading # sensors[sid].lastReading
                    => IngestionSavesSensor(sid)]_vars


-----------------------------------------------------------------------------
(* C14 *)

\* C14: once DELETE /api/sensors/{id} has completed with success, the store
\* holds no reading of that sensor id written by an ingestion (bus or REST)
\* that had started before the delete completed.
C14_DeleteCascades ==
    (del.pc = "done" /\ del.status = 200) =>
        \A x \in readings : x.sensorId = del.sensorId => x.by \notin del.started


-----------------------------------------------------------------------------
(* WebSocket broadcaster: delivery, cleanup and subscription frame *)

\* C15: each broadcast is one emit whose recipients are sockets connected at
\* that moment (a socket disconnected then is not among them), and a recorded
\* emit never changes afterwards: nothing is queued or replayed when a socket
\* connects later, and no step emits the same event again.
C15_AtMostOnceNoReplay ==
    /\ [](\A i \in DOMAIN emitted : emitted[i].to \subseteq emitted[i].conn)
    /\ [][/\ Len(emitted') \in {Len(emitted), Len(emitted) + 1}
          /\ \A i \in DOMAIN emitted : emitted'[i] = emitted[i]]_vars

\* an event reached one socket while another was disconnected, and that other
\* socket is connected now
C15_Witness ==
    \E i \in DOMAIN emitted : \E c, d \in Connections :
        /\ d \in emitted[i].to
        /\ c \notin emitted[i].conn
        /\ c \in sockets

\* C16: the step in which a socket disconnects also removes it from
\* connectedClients and empties its rooms; connectedClients (and
\* getConnectedClientsCount) always holds exactly the connected sockets; a
\* sendToClient to an id that is not connected emits nothing.
C16_DisconnectCleansUp ==
    /\ [](/\ connected = sockets
          /\ GetConnectedClientsCount = Cardinality(sockets)
          /\ \A c \in Connections \ sockets : rooms[c] = {}
          /\ direct.called => (direct.delivered <=> direct.live))
    /\ [][\A c \in Connections :
            (c \in sockets /\ c \notin sockets') =>
                (c \notin connected' /\ rooms'[c] = {})]_vars

\* sendToClient was called for the id of a socket that had received a
\* broadcast and has disconnected since
C16_Witness ==
    /\ direct.called
    /\ ~direct.live
    /\ \E i \in DOMAIN emitted : direct.clientId \in emitted[i].to

\* the rooms a socket can join
Topics == {SensorRoom(sid) : sid \in SensorIds} \cup {Weather, AllUpdates}

\* C17: a step that changes the rooms of socket a leaves every other socket's
\* rooms alone, and for a it is either a connect or disconnect (the set is
\* empty afterwards) or the joining or leaving of exactly one room, all other
\* rooms of a being kept.
C17_OwnSubscriptionsOnly ==
    [][\A a \in Connections :
        rooms'[a] # rooms[a] =>
            /\ \A b \in Connections \ {a} : rooms'[b] = rooms[b]
            /\ \/ /\ (a \in sockets) # (a \in sockets')
                  /\ rooms'[a] = {}
               \/ /\ a \in sockets
                  /\ a \in sockets'
                  /\ \E t \in Topics :
                        \/ rooms'[a] = rooms[a] \cup {t}
                        \/ rooms'[a] = rooms[a] \ {t}]_vars

\* one socket holds two rooms but not the sensor room, which the other holds
C17_Witness ==
    \E a, b \in Connections :
        /\ a # b
        /\ {Weather, AllUpdates} \subseteq rooms[a]
        /\ SensorRoom("s1") \notin rooms[a]
        /\ rooms[b] = {SensorRoom("s1")}


-----------------------------------------------------------------------------
(* Weather samples *)

\* C18: every weather event handled from csir/weather/update and every
\* completed poll of the upstream API has added one document to weather_data,
\* and no step removes or changes a document already there.
C18_WeatherHistoryGrows ==
    /\ [](Cardinality(weather.samples) >=
            Cardinality(SeededWeather) + weather.events + weather.polled)
    /\ [][weather.samples \subseteq weather'.samples]_vars


-----------------------------------------------------------------------------
(* Startup *)

\* C19: the MQTT client is optional at startup: once the database is
\* connected, a broker that is not available never makes the process exit
\* (startServer is then free to go on to Socket.IO and the HTTP listener).
C19_MqttOptionalAtStartup == boot.db => ~boot.exited


-----------------------------------------------------------------------------
(* Status messages *)

\* C21: a status message whose payload parses produces exactly one emit, a
\* sensor:status carrying the message's sensor id and status, and the step
\* that handles a status message (parsable or not, sensor registered or not)
\* leaves the readings and the sensors as they were.
C21_StatusOnlyForwarded ==
    /\ [](\A m \in 1..MaxMsgs :
            msgs[m].outcome = "status" =>
                /\ Cardinality(EmitsBy(<<"msg", m>>)) = 1
                /\ \A i \in EmitsBy(<<"msg", m>>) :
                      /\ emitted[i].event = "sensor:status"
                      /\ emitted[i].sensorId = msgs[m].sensorId
                      /\ emitted[i].status = msgs[m].payload.obj
                /\ ReadingsBy(<<"msg", m>>) = {})
    /\ [][\A m \in 1..MaxMsgs :
            (msgs[m].pc = "none" /\
             msgs'[m].outcome \in {"status", "statusParseError"}) =>
                (readings' = readings /\ sensors' = sensors)]_vars

\* a status message for the unregistered sensor has been forwarded
C21_Witness ==
    \E m \in 1..MaxMsgs :
        /\ msgs[m].outcome = "status"
        /\ ~sensors[msgs[m].sensorId].exists
        /\ \E i \in EmitsBy(<<"msg", m>>) : emitted[i].to # {}


-----------------------------------------------------------------------------
(* Weather: upstream and store failures *)

\* C22: a call of fetchAndBroadcastWeather whose upstream request failed made
\* one attempt, rejected with an error whose message starts with 'Failed to
\* fetch weather data', stored no sample and broadcast nothing; a call whose
\* store failed broadcast nothing either.
C22_FailedPollHasNoEffect ==
    \A k \in DOMAIN weather.results :
        LET res == weather.results[k] IN
        /\ res.failed = "fetch" =>
              /\ res.attempts = 1
              /\ Head(res.error.message) = "Failed to fetch weather data: "
              /\ ~\E x \in weather.samples : x.call = k
              /\ EmitsBy(<<"poll", k>>) = {}
              /\ (k = Len(weather.results) => weather.job = "idle")
        /\ res.failed = "store" =>
              /\ ~\E x \in weather.samples : x.call = k
              /\ EmitsBy(<<"poll", k>>) = {}
              /\ (k = Len(weather.results) => weather.job = "idle")

\* one call failed at the upstream request, a later one at the store
C22_Witness ==
    /\ Len(weather.results) = 2
    /\ weather.results[1].failed = "fetch"
    /\ weather.results[2].failed = "store"


-----------------------------------------------------------------------------
(* Weather codes *)

\* C23: the description returned for an integer code is the WEATHER_CODES
\* entry of that code when the table has one and 'Unknown' otherwise
\* (negative codes included), and the weather_description of fetched weather
\* data equals getWeatherDescription of its weathercode.
C23_DescriptionTotal ==
    /\ response.kind = "code" =>
          response.data.description =
              IF response.data.code \in DOMAIN WEATHER_CODES
              THEN WEATHER_CODES[response.data.code]
              ELSE "Unknown"
    /\ response.kind = "current" =>
          /\ response.data.weather_description =
                GetWeatherDescription(response.data.weathercode)
          /\ response.data.weather_description =
                IF response.data.weathercode \in DOMAIN WEATHER_CODES
                THEN WEATHER_CODES[response.data.weathercode]
                ELSE "Unknown"

\* a negative code was described after a code of the table
C23_Witness ==
    /\ response.kind = "code"
    /\ response.data.code < 0
    /\ response.data.description = "Unknown"
    /\ prevResponse.kind = "current"
    /\ prevResponse.data.weather_description = "Thunderstorm with heavy hail"


-----------------------------------------------------------------------------
(* Reconnection to the broker *)

\* C24: whenever the bus client is connected it is subscribed to the
\* sensor-data, sensor-status and weather-update patterns (also after a
\* reconnect, so later data messages are ingested); a message published while
\* the client had no subscription stays lost: it never yields a reading or an
\* event; and a request whose publishMessage found the client disconnected
\* has put no message on the bus, then or later.
C24_ResubscribeNoBuffering ==
    /\ mqttConnected =>
          boot.subscribed =
              {MQTT_TOPICS.SENSOR_DATA, MQTT_TOPICS.SENSOR_STATUS,
               MQTT_TOPICS.WEATHER_UPDATE}
    /\ \A m \in 1..MaxMsgs :
          msgs[m].offline =>
              /\ msgs[m].pc = "lost"
              /\ ReadingsBy(<<"msg", m>>) = {}
              /\ EmitsBy(<<"msg", m>>) = {}
    /\ \A r \in Requests :
          (post[r].pc = "done" /\ post[r].status = 201 /\ ~post[r].published) =>
              msgs[LoopMsg(r)].pc = "none"

\* a message published while disconnected is lost, a later one (after the
\* reconnect) was ingested and broadcast, and a request published nothing
\* because the client was disconnected, which is connected again now
C24_Witness ==
    /\ \E m1, m2 \in 1..MaxMsgs :
          /\ m1 < m2
          /\ msgs[m1].offline
          /\ msgs[m2].outcome = "ok"
    /\ \E r \in Requests :
          post[r].pc = "done" /\ post[r].status = 201 /\ ~post[r].published
    /\ mqttConnected


-----------------------------------------------------------------------------
(* connectDatabase *)

\* the wait after the k-th failed attempt, in ms
BackoffMs(k) ==
    IF 1000 * (2 ^ k) <= 30000 THEN 1000 * (2 ^ k) ELSE 30000

\* C25: connectDatabase terminates, by returning or by throwing; it makes at
\* most 5 attempts and none after a success; the wait after the k-th failed
\* attempt (k = 1..4) is min(1000 * 2^k, 30000) ms; on the 5th failure it
\* throws 'Failed to connect to MongoDB after 5 attempts' with no further wait
\* or attempt.
C25_ConnectDatabaseTerminates ==
    /\ <>(boot.db \/ boot.dbError # NoMessage)
    /\ [](/\ boot.attempts <= 5
          /\ Len(boot.waits) <= 4
          /\ \A k \in DOMAIN boot.waits : boot.waits[k] = BackoffMs(k)
          /\ boot.db => (boot.attempts = Len(boot.waits) + 1 /\ boot.dbError = NoMessage)
          /\ boot.dbError # NoMessage =>
                /\ boot.dbError = <<"Failed to connect to MongoDB after ", 5, " attempts">>
                /\ boot.attempts = 5
                /\ Len(boot.waits) = 4
                /\ ~boot.db
                /\ boot.pc = "exited")
    /\ [][(boot.db \/ boot.dbError # NoMessage) =>
            (boot'.attempts = boot.attempts /\ boot'.waits = boot.waits)]_vars

\* the fourth attempt succeeded after three waits, and the server listens
C25_Witness ==
    /\ boot.db
    /\ boot.attempts = 4
    /\ boot.waits = <<2000, 4000, 8000>>
    /\ boot.listening


-----------------------------------------------------------------------------
(* Sensor creation *)

\* the requests that have completed for sensor id sid after finding no sensor
\* of that id
CreatedBlind(sid) ==
    {q \in CreateRequests :
        create[q].pc = "done" /\ create[q].sensorId = sid /\ ~create[q].existing}

\* C26: the collection never holds two sensors of one sensorId; a create
\* request that finds the id taken answers 409 and a create step changes no
\* other sensor; of the requests that all passed the existence check for a
\* new id, at most one answers 201, and when none met a storage failure
\* exactly one answers 201 and every other one 409.
C26_SensorIdUnique ==
    /\ [](/\ \A sid \in SensorIds :
                /\ sensors[sid].copies <= 1
                /\ sensors[sid].exists <=> sensors[sid].copies = 1
          /\ \A q \in CreateRequests :
                (create[q].pc = "done" /\ create[q].existing) => create[q].status = 409
          /\ \A sid \in SensorIds :
                (~SeededSensors[sid].exists /\ CreatedBlind(sid) # {}) =>
                    /\ Cardinality({q \in CreatedBlind(sid) : create[q].status = 201}) <= 1
                    /\ (\A q \in CreatedBlind(sid) : create[q].status # 500) =>
                          /\ Cardinality({q \in CreatedBlind(sid) : create[q].status = 201}) = 1
                          /\ \A q \in CreatedBlind(sid) : create[q].status \in {201, 409})
    /\ [][\A q \in CreateRequests :
            (create[q].pc = "found" /\ create'[q].pc = "done") =>
                /\ \A sid \in SensorIds \ {create[q].sensorId} : sensors'[sid] = sensors[sid]
                /\ create'[q].status # 201 => sensors' = sensors]_vars

\* two requests for the same new id both passed the existence check; one
\* created the sensor and the other answered 409
C26_Witness ==
    \E q1, q2 \in CreateRequests :
        /\ q1 # q2
        /\ create[q1].pc = "done" /\ create[q2].pc = "done"
        /\ create[q1].sensorId = create[q2].sensorId
        /\ ~create[q1].existing /\ ~create[q2].existing
        /\ create[q1].status = 201
        /\ create[q2].status = 409


-----------------------------------------------------------------------------
(* REST submission: events and atomicity *)

\* the iot:reading emits that stem from request r: the route's own broadcast
\* and the broadcast of the handler that ingested the republished copy
EventsOfRequest(r) ==
    {i \in DOMAIN emitted :
        /\ emitted[i].event = "iot:reading"
        /\ emitted[i].by \in {<<"post", r>>, <<"msg", LoopMsg(r)>>}}

\* C27: an accepted POST /api/iot/readings request has caused exactly one
\* iot:reading broadcast, also when the bus client is connected and receives
\* the copy the route publishes.
C27_OneEventPerSubmission ==
    \A r \in Requests :
        post[r].status = 201 => Cardinality(EventsOfRequest(r)) = 1

\* C29: a POST /api/iot/readings request that ended with an error response
\* has persisted no reading and broadcast no event.
C29_AllOrNothing ==
    \A r \in Requests :
        (post[r].pc = "done" /\ post[r].status >= 400) =>
            /\ ReadingsBy(<<"post", r>>) = {}
            /\ EmitsBy(<<"post", r>>) = {}

-----------------------------------------------------------------------------
(* Broadcast after persistence *)

\* the emits appended by the step
NewEmits == {i \in DOMAIN emitted' : i > Len(emitted)}

\* the handlers whose reading.save() was rejected
FailedSaves ==
    {<<"msg", m>> : m \in {x \in MsgIds : msgs[x].outcome = "saveFailed"}}
    \cup {<<"post", r>> : r \in {x \in Requests :
                /\ post[x].pc = "done" /\ post[x].status >= 500
                /\ ReadingsBy(<<"post", x>>) = {}}}
    \cup {<<"sim", q>> : q \in {x \in SimRequests :
                /\ sim[x].pc = "done" /\ sim[x].status >= 500
                /\ ReadingsBy(<<"sim", x>>) = {}}}

\* C28: every iot:reading event the server broadcasts, from bus ingestion,
\* REST submission or simulation, carries a reading whose save by the same
\* handler had succeeded before the broadcast step; a handler whose save
\* failed has broadcast nothing.
C28_BroadcastAfterPersisted ==
    /\ [](\A by \in FailedSaves : EmitsBy(by) = {})
    /\ [][\A i \in NewEmits :
            emitted'[i].event = "iot:reading" =>
                \E x \in readings :
                    /\ x.id = emitted'[i].rid
                    /\ x.by = emitted'[i].by
                    /\ x.sensorId = emitted'[i].sensorId]_vars

\* all three sources have broadcast a reading, and the handler of the
\* republished copy had its save rejected
C28_Witness ==
    /\ EmitsBy(<<"msg", 1>>) # {}
    /\ EmitsBy(<<"post", 1>>) # {}
    /\ EmitsBy(<<"sim", 1>>) # {}
    /\ msgs[LoopMsg(1)].outcome = "saveFailed"

-----------------------------------------------------------------------------
(* Front end: listeners and reconnection *)

\* C30: a server event received by the WebSocketService has invoked each
\* listener registered for it exactly once, whatever number of reconnections
\* the socket has gone through.
C30_ListenerInvokedOnce ==
    front.last # "none" =>
        \A h \in DOMAIN front.calls : front.calls[h] = 1

====
